---- MODULE Spec2Model ----
(***************************************************************************)
(* A model of csvtools: CsvSorter (external merge sort of a csv file) and  *)
(* CsvMerger (schema-reconciling concatenation of csv files).              *)
(*                                                                         *)
(* Text is modelled as it is on disk: a file is a flat sequence of         *)
(* characters, a line is a sequence of characters that keeps its newline,  *)
(* reading a file cuts it after every newline and writing lines            *)
(* concatenates them.                                                      *)
(***************************************************************************)
EXTENDS Integers, Sequences, FiniteSets, TLC

----------------------------------------------------------------------------
(* Bounds of the model.                                                    *)

\* Largest number of data rows of the file given to sort_file.
MaxRows == 3

----------------------------------------------------------------------------
(* Characters and strings.                                                 *)

NL == "\n"
QUOTE == "\""
COMMA == ","
SEMICOLON == ";"

Digits == {"0", "1", "2", "3", "4", "5", "6", "7", "8", "9"}

IsDigit(c) == c \in Digits

DigitValue(c) ==
    CASE c = "0" -> 0 [] c = "1" -> 1 [] c = "2" -> 2 [] c = "3" -> 3
      [] c = "4" -> 4 [] c = "5" -> 5 [] c = "6" -> 6 [] c = "7" -> 7
      [] c = "8" -> 8 [] c = "9" -> 9

DigitChar(d) ==
    CASE d = 0 -> "0" [] d = 1 -> "1" [] d = 2 -> "2" [] d = 3 -> "3"
      [] d = 4 -> "4" [] d = 5 -> "5" [] d = 6 -> "6" [] d = 7 -> "7"
      [] d = 8 -> "8" [] d = 9 -> "9"

\* The code point of a character (the order of Python's str comparison).
CharCode(c) ==
    CASE c = NL -> 10 [] c = QUOTE -> 34 [] c = COMMA -> 44
      [] c = SEMICOLON -> 59
      [] IsDigit(c) -> 48 + DigitValue(c)
      [] c = "." -> 46 [] c = "/" -> 47 [] c = "_" -> 95
      [] c = "a" -> 97 [] c = "b" -> 98 [] c = "c" -> 99 [] c = "d" -> 100
      [] c = "o" -> 111 [] c = "p" -> 112 [] c = "r" -> 114
      [] c = "s" -> 115 [] c = "t" -> 116 [] c = "v" -> 118
      [] c = "x" -> 120 [] c = "y" -> 121 [] c = "z" -> 122

Min(a, b) == IF a <= b THEN a ELSE b

\* str(n) for n >= 0.
RECURSIVE IntToStr(_)
IntToStr(n) ==
    IF n < 10 THEN <<DigitChar(n)>>
    ELSE IntToStr(n \div 10) \o <<DigitChar(n % 10)>>

\* int(s) for a string of digits.
RECURSIVE StrToInt(_)
StrToInt(s) ==
    IF s = <<>> THEN 0
    ELSE 10 * StrToInt(SubSeq(s, 1, Len(s) - 1)) + DigitValue(s[Len(s)])

\* Position of the first c in s, 0 when there is none.
FirstIndex(s, c) ==
    IF \E i \in 1..Len(s) : s[i] = c
    THEN CHOOSE i \in 1..Len(s) : s[i] = c /\ \A j \in 1..(i - 1) : s[j] # c
    ELSE 0

\* Iterating over a text file: the lines, each with its newline; the last
\* line has none when the file does not end with one.
RECURSIVE Lines(_)
Lines(content) ==
    IF content = <<>> THEN <<>>
    ELSE LET k == FirstIndex(content, NL)
         IN  IF k = 0 THEN <<content>>
             ELSE <<SubSeq(content, 1, k)>>
                      \o Lines(SubSeq(content, k + 1, Len(content)))

\* file.writelines(rows), ''.join(rows): the rows one after the other.
RECURSIVE Concat(_)
Concat(rows) ==
    IF rows = <<>> THEN <<>> ELSE Head(rows) \o Concat(Tail(rows))

\* str.split(sep) for a one-character separator.
RECURSIVE Split(_, _)
Split(s, sep) ==
    LET k == FirstIndex(s, sep)
    IN  IF k = 0 THEN <<s>>
        ELSE <<SubSeq(s, 1, k - 1)>> \o Split(SubSeq(s, k + 1, Len(s)), sep)

\* row.split(sep, 1)[-1]: what follows the first separator, the whole row
\* when it holds none.
SplitOnceLast(row, sep) ==
    LET k == FirstIndex(row, sep)
    IN  IF k = 0 THEN row ELSE SubSeq(row, k + 1, Len(row))

\* sep.join(fields).
RECURSIVE Join(_, _)
Join(sep, fields) ==
    IF fields = <<>> THEN <<>>
    ELSE IF Len(fields) = 1 THEN fields[1]
    ELSE fields[1] \o <<sep>> \o Join(sep, Tail(fields))

\* list.index(x): the first position (from 0) of x, -1 for ValueError.
ListIndex(list, x) ==
    IF \E i \in 1..Len(list) : list[i] = x
    THEN (CHOOSE i \in 1..Len(list) :
              list[i] = x /\ \A j \in 1..(i - 1) : list[j] # x) - 1
    ELSE -1

\* row.strip('\n'): newlines removed at both ends.
RECURSIVE StripNL(_)
StripNL(row) ==
    IF row = <<>> THEN row
    ELSE IF row[1] = NL THEN StripNL(Tail(row))
    ELSE IF row[Len(row)] = NL THEN StripNL(SubSeq(row, 1, Len(row) - 1))
    ELSE row

----------------------------------------------------------------------------
(* The natural-order key (yaptools._alphanum_key).                         *)

\* Length of the maximal first run of s: digits only, or no digit.
RunLen(s) ==
    LET d == IsDigit(s[1])
    IN  IF \A i \in 1..Len(s) : IsDigit(s[i]) = d THEN Len(s)
        ELSE (CHOOSE i \in 1..Len(s) :
                  IsDigit(s[i]) # d /\ \A j \in 1..(i - 1) : IsDigit(s[j]) = d) - 1

\* A string cut into its maximal runs of digits (taken as integers) and of
\* other characters.
RECURSIVE AlphanumKey(_)
AlphanumKey(s) ==
    IF s = <<>> THEN <<>>
    ELSE LET k == RunLen(s)
             run == SubSeq(s, 1, k)
             chunk == IF IsDigit(s[1])
                      THEN [num |-> TRUE, n |-> StrToInt(run), s |-> <<>>]
                      ELSE [num |-> FALSE, n |-> 0, s |-> run]
         IN  <<chunk>> \o AlphanumKey(SubSeq(s, k + 1, Len(s)))

\* s < t for two strings.
RECURSIVE StrLess(_, _)
StrLess(s, t) ==
    IF t = <<>> THEN FALSE
    ELSE IF s = <<>> THEN TRUE
    ELSE IF s[1] = t[1] THEN StrLess(Tail(s), Tail(t))
    ELSE CharCode(s[1]) < CharCode(t[1])

\* Two runs of digits compare as integers, two other runs as strings. The
\* rows of the model never set a run of digits against a run of other
\* characters; the order given to that case here is never used.
ChunkLess(c, d) ==
    IF c.num /\ d.num THEN c.n < d.n
    ELSE IF ~c.num /\ ~d.num THEN StrLess(c.s, d.s)
    ELSE c.num

\* k1 < k2 for two keys: element-wise, the shorter of two otherwise equal
\* keys first.
RECURSIVE KeyLess(_, _)
KeyLess(k1, k2) ==
    IF k2 = <<>> THEN FALSE
    ELSE IF k1 = <<>> THEN TRUE
    ELSE IF k1[1] = k2[1] THEN KeyLess(Tail(k1), Tail(k2))
    ELSE ChunkLess(k1[1], k2[1])

KeyLeq(k1, k2) == ~KeyLess(k2, k1)

----------------------------------------------------------------------------
(* CsvSorter: state.                                                       *)

VARIABLES
    chunksize,       \* CsvSorter.chunksize
    max_open,        \* CsvSorter.max_open
    tempdir_exists,  \* whether the directory CsvSorter.tempdir exists
    dirs,            \* the working directory: step -> (cardinal -> content)
    input_exists,    \* whether input_file is a file
    input_file,      \* the content of input_file
    out_dir_exists,  \* whether the directory of output_file exists
    output_exists,   \* whether output_file exists
    output_file,     \* the content of output_file
    has_header,      \* sort_file's has_header
    sorting_axis,    \* sort_file's sorting_axis
    header,          \* the header _initial_step returns
    sorting_key,     \* the key function _initial_step returns
    pc,              \* where the call stands
    err,             \* the exception raised, and where
    step_n,          \* _merging_steps' step_n
    temp_files,      \* _merging_steps' temp_files
    group_i,         \* _merging_steps' i
    to_merge,        \* the runs of the group being merged, in order
    open_runs,       \* the runs of step step_n open for reading
    writing,         \* the runs open for writing, as <<step, cardinal>>
    gen_sizes        \* history: len(temp_files) of every step listed so far

sorterVars == <<chunksize, max_open, tempdir_exists, dirs, input_exists,
                input_file, out_dir_exists, output_exists, output_file,
                has_header, sorting_axis, header, sorting_key, pc, err,
                step_n, temp_files, group_i, to_merge, open_runs, writing,
                gen_sizes>>

(* CsvMerger: state.                                                       *)

VARIABLES
    main_file,       \* the content of merge_files' main_file
    merged_file,     \* the content of merge_files' merged_file
    main_sep,        \* merge_files' main_sep
    merged_sep,      \* merge_files' merged_sep
    main_header,     \* merge_files' main_header
    merged_header,   \* merge_files' merged_header
    infile,          \* the lines of merged_file not read yet
    index,           \* merge_files' index
    merge_pc,        \* where the call of merge_files stands
    merge_err,       \* the exception merge_files raised
    main_before      \* history: the content of main_file before the call

mergerVars == <<main_file, merged_file, main_sep, merged_sep, main_header,
                merged_header, infile, index, merge_pc, merge_err,
                main_before>>

(* CsvMerger: the staged files.                                            *)

VARIABLES
    files,           \* the csv and other files on disk: path -> content
    staged_files,    \* CsvMerger.staged_files, as [path, sep] records
    stage_pc,        \* where the merger stands: between calls, or inside
                     \* merge_staged_files
    stage_err,       \* the exception the last call of stage or
                     \* merge_staged_files raised
    staged_header,   \* merge_staged_files' global_header
    out_sep,         \* merge_staged_files' sep
    remove_merged,   \* merge_staged_files' remove_merged
    merge_k,         \* merge_staged_files: the place in staged_files of the
                     \* file being merged
    out_path,        \* merge_staged_files' output_path
    out_exists,      \* whether the output file exists (its content is
                     \* main_file)
    files_before     \* history: the files on disk when merge_staged_files
                     \* was called

outVars == <<out_path, out_exists, files_before>>

stageVars == <<files, staged_files, stage_pc, stage_err, staged_header,
               out_sep, remove_merged, merge_k, outVars>>

\* Several sort_file operations in flight at once: what they do to the
\* working directories, whatever the rows.
VARIABLES
    tempdir,         \* CsvSorter.tempdir of each sorter
    sorter_of,       \* the sorter each operation is called on
    op_tempfiles,    \* _initial_step's n_tempfiles of each operation
    op_pc,           \* where each operation stands
    op_err,          \* the exception each operation raised
    op_step,         \* _merging_steps' step_n of each operation
    tmp,             \* the temporary folder of the system: working
                     \* directory -> step -> file name -> the operation that
                     \* wrote the file
    touched          \* the operations whose files each operation has
                     \* listed, read, overwritten or deleted

concVars == <<tempdir, sorter_of, op_tempfiles, op_pc, op_err, op_step, tmp,
              touched>>

\* LargeCsvTransformer.
VARIABLES
    tr_pc,           \* where the transformer stands
    tr_err,          \* the exception the call of the transformer raised
    reader_chunksize,\* LargeCsvReader.chunksize
    sorting_column,  \* sort's sorting_column
    assign_as_data,  \* sort's assign_as_data
    filepath,        \* LargeCsvReader.filepath: "input" or "output"
    store_file,      \* _transform_store's output_file
    results,         \* what the function returns for each chunk
    store_files      \* __transform_to_temporary_files' temp_files

transformerVars == <<tr_pc, tr_err, reader_chunksize, sorting_column,
                     assign_as_data, filepath, store_file, results,
                     store_files>>

\* A csv writer (DictCsvWriter or DataframeCsvWriter) and its csv file.
VARIABLES
    w_class,         \* the class of the writer: "dict" or "dataframe"
    w_buffer_size,   \* AbstractCsvWriter.buffer_size
    w_write_index,   \* DataframeCsvWriter._write_index
    w_exists,        \* whether the csv file exists
    w_file,          \* the content of the csv file
    w_first,         \* the content of the csv file when the writer was built
    w_header,        \* AbstractCsvWriter.header
    w_buffer,        \* AbstractCsvWriter.buffer: the buffered records
    w_has_changed,   \* AbstractCsvWriter._has_changed
    w_stored,        \* AbstractCsvWriter.number_of_rows_stored
    w_pc,            \* the last call and how it ended
    w_handled,       \* the number of calls of handle_record so far
    w_seen,          \* the columns seen so far, in the order they were seen
    w_flushed,       \* the records written to the csv file so far
    w_failed         \* whether a flush has failed

writerVars == <<w_class, w_buffer_size, w_write_index, w_exists, w_file,
                w_first, w_header, w_buffer, w_has_changed, w_stored, w_pc,
                w_handled, w_seen, w_flushed, w_failed>>

\* The calls of sort_file a sorter has had before the current one.
VARIABLES
    prev_err         \* the exception the previous call of sort_file on the
                     \* sorter raised, if it raised one

\* A call of CsvMerger._parse_csv_row on its own.
VARIABLES
    parse_row,       \* _parse_csv_row's row
    parse_sep,       \* _parse_csv_row's sep
    parse_fields,    \* what _parse_csv_row returned
    parse_pc         \* whether _parse_csv_row is called, or has returned

parseVars == <<parse_row, parse_sep, parse_fields, parse_pc>>

callVars == <<prev_err, parseVars>>

\* What the steps of sort_file, of merge_files and of merge_staged_files
\* leave alone.
nonSorterVars == <<mergerVars, stageVars, concVars, transformerVars,
                   writerVars, callVars>>
nonMergerVars == <<sorterVars, stageVars, concVars, transformerVars,
                   writerVars, callVars>>
nonStageVars == <<sorterVars, concVars, transformerVars, writerVars,
                  callVars>>

vars == <<sorterVars, mergerVars, stageVars, concVars, transformerVars,
          writerVars, callVars>>

\* sort_file's sep, at its default.
SEP == COMMA

\* The three kinds of sorting_axis: None, an int, a str.
RandomAxis == [kind |-> "random", index |-> 0, name |-> <<>>]
IndexAxis(i) == [kind |-> "index", index |-> i, name |-> <<>>]
NameAxis(n) == [kind |-> "name", index |-> 0, name |-> n]

NoHeader == [present |-> FALSE, line |-> <<>>]
NoError == [type |-> "", where |-> ""]
NoKey == [random |-> FALSE, column |-> 0]

\* The chunk sizes and max_open values a sorter is built with.
ChunkSizes == {0, 1, 2}
MaxOpens == {0, 1, 2}

\* The csv file: the header a,b and rows of two fields, the second one
\* quoted. The two rows share their first field; the second field of one
\* holds a separator.
HeaderRow == <<"a", COMMA, "b">>
RowPool == { <<"a", COMMA, QUOTE, "x", QUOTE>>,
             <<"a", COMMA, QUOTE, "x", COMMA, "y", QUOTE>> }
RowSeqs == UNION {[1..n -> RowPool] : n \in 0..MaxRows}
Axes == {RandomAxis, IndexAxis(0), IndexAxis(1),
         NameAxis(<<"a">>), NameAxis(<<"b">>), NameAxis(<<"z">>)}

\* The text of a csv file of the given rows.
FileContent(with_header, rows, ends_nl) ==
    LET all == IF with_header THEN <<HeaderRow>> \o rows ELSE rows
    IN  Join(NL, all) \o (IF ends_nl /\ all # <<>> THEN <<NL>> ELSE <<>>)

----------------------------------------------------------------------------
(* CsvSorter: the functions.                                               *)

\* The key function of a row.
SortingKey(key, row) ==
    IF key.random THEN AlphanumKey(row)
    ELSE AlphanumKey(Split(row, SEP)[key.column + 1])

\* sorted(rows, key=sorting_key): a stable sort.
RECURSIVE InsertSorted(_, _, _)
InsertSorted(sorted, row, key) ==
    IF sorted = <<>> THEN <<row>>
    ELSE IF KeyLess(SortingKey(key, row), SortingKey(key, sorted[1]))
    THEN <<row>> \o sorted
    ELSE <<sorted[1]>> \o InsertSorted(Tail(sorted), row, key)

RECURSIVE Sorted(_, _)
Sorted(rows, key) ==
    IF rows = <<>> THEN <<>>
    ELSE InsertSorted(Sorted(SubSeq(rows, 1, Len(rows) - 1), key),
                      rows[Len(rows)], key)

\* The number of initial temporary files.
NTempfiles(n_rows) ==
    n_rows \div chunksize + (IF n_rows % chunksize > 0 THEN 1 ELSE 0)

\* The initial temporary files: the n-1 first hold chunksize rows each, the
\* final one, of cardinal n-1, what is left.
InitialRuns(rows, n_tempfiles, key) ==
    LET n_first == IF n_tempfiles >= 1 THEN n_tempfiles - 1 ELSE 0
        chunk(i) == IF i = n_tempfiles - 1
                    THEN SubSeq(rows, n_first * chunksize + 1, Len(rows))
                    ELSE SubSeq(rows, i * chunksize + 1, (i + 1) * chunksize)
    IN  [i \in (0..(n_tempfiles - 2)) \cup {n_tempfiles - 1} |->
            Concat(Sorted(chunk(i), key))]

\* The permutations of 0..n-1, as numpy.random.permutation(n) draws one.
IndexPermutations(n) ==
    {p \in [1..n -> 0..(n - 1)] : \A i, j \in 1..n : i # j => p[i] # p[j]}

\* The orders os.listdir may give the names of a directory in.
ListDir(names) ==
    {p \in [1..Cardinality(names) -> names] :
        \A i, j \in 1..Cardinality(names) : i # j => p[i] # p[j]}

\* A variant of FilesRange that leaves out a last, shorter group.
FilesRangeFloor(n) ==
    [k \in 1..(n \div max_open) |-> (k - 1) * max_open]

\* range(0, n, max_open), for max_open > 0.
FilesRange(n) ==
    [k \in 1..((n + max_open - 1) \div max_open) |-> (k - 1) * max_open]

\* A variant of GroupEnd that takes one file more.
GroupEndWide(start, n) == Min(start + max_open + 1, n)

\* The end of the group of files that starts at start.
GroupEnd(start, n) == Min(start + max_open, n)

\* heapq.merge(*its, key): the least head first, the earlier iterable first
\* among equal keys.
RECURSIVE HeapMerge(_, _)
HeapMerge(its, key) ==
    LET live == {i \in 1..Len(its) : its[i] # <<>>}
        k(i) == SortingKey(key, its[i][1])
    IN  IF live = {} THEN <<>>
        ELSE LET best == CHOOSE i \in live : \A j \in live \ {i} :
                             \/ KeyLess(k(i), k(j))
                             \/ (~KeyLess(k(j), k(i)) /\ i < j)
             IN  <<its[best][1]>>
                     \o HeapMerge([its EXCEPT ![best] = Tail(@)], key)

----------------------------------------------------------------------------
(* CsvSorter: the steps of sort_file.                                      *)

Raise(type, where) ==
    /\ pc' = "raised"
    /\ err' = [type |-> type, where |-> where]

\* sort_file, up to the call of _initial_step.
SortFile ==
    /\ pc = "idle"
    /\ IF ~input_exists
       THEN /\ Raise("FileNotFoundError", "sort_file")
            /\ UNCHANGED out_dir_exists
       ELSE /\ out_dir_exists' = TRUE
            /\ IF sorting_axis.kind = "name" /\ ~has_header
               THEN Raise("ValueError", "sort_file")
               ELSE pc' = "initial" /\ UNCHANGED err
    /\ UNCHANGED nonSorterVars
    /\ UNCHANGED <<chunksize, max_open, tempdir_exists, dirs, input_exists,
                   input_file, output_exists, output_file, has_header,
                   sorting_axis, header, sorting_key, step_n, temp_files,
                   group_i, to_merge, open_runs, writing, gen_sizes>>

\* _initial_step.
InitialStep ==
    /\ pc = "initial"
    /\ LET lines == Lines(input_file)
           n_rows == Len(lines) - (IF has_header THEN 1 ELSE 0)
       IN  IF chunksize = 0
           THEN /\ Raise("ZeroDivisionError", "_initial_step")
                /\ UNCHANGED <<tempdir_exists, dirs, header, sorting_key>>
           ELSE IF tempdir_exists
           THEN /\ Raise("FileExistsError", "_initial_step")
                /\ UNCHANGED <<tempdir_exists, dirs, header, sorting_key>>
           ELSE LET n_tempfiles == NTempfiles(n_rows)
                    hdr == IF has_header
                           THEN [present |-> TRUE, line |-> lines[1]]
                           ELSE NoHeader
                    data == IF has_header THEN Tail(lines) ELSE lines
                    column == IF sorting_axis.kind = "name"
                              THEN ListIndex(Split(hdr.line, SEP),
                                             sorting_axis.name)
                              ELSE sorting_axis.index
                IN  /\ tempdir_exists' = TRUE
                    /\ header' = hdr
                    /\ IF sorting_axis.kind = "name" /\ column = -1
                       THEN /\ Raise("ValueError", "_initial_step")
                            /\ dirs' = (0 :> <<>>)
                            /\ UNCHANGED sorting_key
                       ELSE \E random_index \in (IF sorting_axis.kind = "random"
                                          THEN IndexPermutations(n_rows)
                                          ELSE {<<>>}) :
                              LET key == [random |-> sorting_axis.kind = "random",
                                          column |-> column]
                                  rows == IF sorting_axis.kind = "random"
                                          THEN [i \in 1..n_rows |->
                                                  IntToStr(random_index[i]) \o <<SEP>>
                                                      \o data[i]]
                                          ELSE data
                              IN  /\ dirs' = (0 :> InitialRuns(rows, n_tempfiles, key))
                                  /\ sorting_key' = key
                                  /\ pc' = "list"
                                  /\ UNCHANGED err
    /\ UNCHANGED nonSorterVars
    /\ UNCHANGED <<chunksize, max_open, input_exists, input_file,
                   out_dir_exists, output_exists, output_file, has_header,
                   sorting_axis, step_n, temp_files, group_i, to_merge,
                   open_runs, writing, gen_sizes>>

\* _merging_steps: the head of the loop, up to the first group. The loop has
\* no bound of its own: the model follows it as long as a step leaves fewer
\* files than it found, and stops at the first step that does not (from
\* there every further step is the same step again).
ListRuns ==
    /\ pc = "list"
    /\ \E listed \in ListDir(DOMAIN dirs[step_n]) :
         /\ temp_files' = listed
         /\ gen_sizes' = Append(gen_sizes, Len(listed))
         /\ IF Len(listed) = 1
            THEN /\ pc' = "cleanup"
                 /\ UNCHANGED <<dirs, err, group_i>>
            ELSE /\ IF step_n = 0 THEN TRUE
                    ELSE Len(listed) < gen_sizes[step_n]
                 /\ dirs' = dirs @@ ((step_n + 1) :> <<>>)
                 /\ IF max_open = 0
                    THEN /\ Raise("ValueError", "_merging_steps")
                         /\ UNCHANGED group_i
                    ELSE /\ pc' = "group"
                         /\ group_i' = 0
                         /\ UNCHANGED err
    /\ UNCHANGED nonSorterVars
    /\ UNCHANGED <<chunksize, max_open, tempdir_exists, input_exists,
                   input_file, out_dir_exists, output_exists, output_file,
                   has_header, sorting_axis, header, sorting_key, step_n,
                   to_merge, open_runs, writing>>

\* One group: the generators are built and the new temporary file is opened.
StartGroup ==
    /\ pc = "group"
    /\ LET start == FilesRange(Len(temp_files))[group_i + 1]
           end == GroupEnd(start, Len(temp_files))
       IN  to_merge' = SubSeq(temp_files, start + 1, end)
    /\ writing' = writing \cup {<<step_n + 1, group_i>>}
    /\ dirs' = [dirs EXCEPT ![step_n + 1] = @ @@ (group_i :> <<>>)]
    /\ pc' = "opening"
    /\ UNCHANGED nonSorterVars
    /\ UNCHANGED <<chunksize, max_open, tempdir_exists, input_exists,
                   input_file, out_dir_exists, output_exists, output_file,
                   has_header, sorting_axis, header, sorting_key, err, step_n,
                   temp_files, group_i, open_runs, gen_sizes>>

\* heapq.merge takes the first row of the next run of the group, which
\* opens it.
OpenRun ==
    /\ pc = "opening"
    /\ open_runs' = open_runs \cup {to_merge[Cardinality(open_runs) + 1]}
    /\ pc' = IF Cardinality(open_runs) + 1 = Len(to_merge)
             THEN "merging" ELSE "opening"
    /\ UNCHANGED nonSorterVars
    /\ UNCHANGED <<chunksize, max_open, tempdir_exists, dirs, input_exists,
                   input_file, out_dir_exists, output_exists, output_file,
                   has_header, sorting_axis, header, sorting_key, err, step_n,
                   temp_files, group_i, to_merge, writing, gen_sizes>>

\* A variant of WriteMerged that leaves the loop over the groups after the
\* group it wrote.
WriteMergedOnce ==
    /\ pc = "merging"
    /\ LET its == [k \in 1..Len(to_merge) |-> Lines(dirs[step_n][to_merge[k]])]
       IN  dirs' = [dirs EXCEPT ![step_n + 1][group_i] =
                        Concat(HeapMerge(its, sorting_key))]
    /\ open_runs' = {}
    /\ writing' = writing \ {<<step_n + 1, group_i>>}
    /\ group_i' = group_i + 1
    /\ pc' = "rmtree"
    /\ UNCHANGED nonSorterVars
    /\ UNCHANGED <<chunksize, max_open, tempdir_exists, input_exists,
                   input_file, out_dir_exists, output_exists, output_file,
                   has_header, sorting_axis, header, sorting_key, err, step_n,
                   temp_files, to_merge, gen_sizes>>

\* The merged rows are written; each run is closed as it is exhausted, the
\* new temporary file once all rows are written.
WriteMerged ==
    /\ pc = "merging"
    /\ LET its == [k \in 1..Len(to_merge) |-> Lines(dirs[step_n][to_merge[k]])]
       IN  dirs' = [dirs EXCEPT ![step_n + 1][group_i] =
                        Concat(HeapMerge(its, sorting_key))]
    /\ open_runs' = {}
    /\ writing' = writing \ {<<step_n + 1, group_i>>}
    /\ group_i' = group_i + 1
    /\ pc' = IF group_i + 1 < Len(FilesRange(Len(temp_files)))
             THEN "group" ELSE "rmtree"
    /\ UNCHANGED nonSorterVars
    /\ UNCHANGED <<chunksize, max_open, tempdir_exists, input_exists,
                   input_file, out_dir_exists, output_exists, output_file,
                   has_header, sorting_axis, header, sorting_key, err, step_n,
                   temp_files, to_merge, gen_sizes>>

\* The previous temporary files are deleted and the step incremented.
RemoveStep ==
    /\ pc = "rmtree"
    /\ dirs' = [g \in DOMAIN dirs \ {step_n} |-> dirs[g]]
    /\ step_n' = step_n + 1
    /\ pc' = "list"
    /\ UNCHANGED nonSorterVars
    /\ UNCHANGED <<chunksize, max_open, tempdir_exists, input_exists,
                   input_file, out_dir_exists, output_exists, output_file,
                   has_header, sorting_axis, header, sorting_key, err,
                   temp_files, group_i, to_merge, open_runs, writing,
                   gen_sizes>>

\* The rows of the sorted file as _cleanup_step writes them.
RECURSIVE RemoveIndex(_)
RemoveIndex(rows) ==
    IF rows = <<>> THEN <<>>
    ELSE <<SplitOnceLast(Head(rows), SEP)>> \o RemoveIndex(Tail(rows))

\* A variant of _cleanup_step that leaves the temporary files where they are.
CleanupStepKeepsRuns ==
    /\ pc = "cleanup"
    /\ output_exists' = TRUE
    /\ IF 0 \notin DOMAIN dirs[step_n]
       THEN /\ Raise("FileNotFoundError", "_cleanup_step")
            /\ output_file' = header.line
            /\ UNCHANGED <<tempdir_exists, dirs>>
       ELSE /\ output_file' = header.line \o
                  (IF sorting_axis.kind = "random"
                   THEN Concat(RemoveIndex(Lines(dirs[step_n][0])))
                   ELSE dirs[step_n][0])
            /\ pc' = "done"
            /\ UNCHANGED <<tempdir_exists, dirs, err>>
    /\ UNCHANGED nonSorterVars
    /\ UNCHANGED <<chunksize, max_open, input_exists, input_file,
                   out_dir_exists, has_header, sorting_axis, header,
                   sorting_key, step_n, temp_files, group_i, to_merge,
                   open_runs, writing, gen_sizes>>

\* _cleanup_step.
CleanupStep ==
    /\ pc = "cleanup"
    /\ output_exists' = TRUE
    /\ IF 0 \notin DOMAIN dirs[step_n]
       THEN /\ Raise("FileNotFoundError", "_cleanup_step")
            /\ output_file' = header.line
            /\ UNCHANGED <<tempdir_exists, dirs>>
       ELSE /\ output_file' = header.line \o
                  (IF sorting_axis.kind = "random"
                   THEN Concat(RemoveIndex(Lines(dirs[step_n][0])))
                   ELSE dirs[step_n][0])
            /\ tempdir_exists' = FALSE
            /\ dirs' = <<>>
            /\ pc' = "done"
            /\ UNCHANGED err
    /\ UNCHANGED nonSorterVars
    /\ UNCHANGED <<chunksize, max_open, input_exists, input_file,
                   out_dir_exists, has_header, sorting_axis, header,
                   sorting_key, step_n, temp_files, group_i, to_merge,
                   open_runs, writing, gen_sizes>>

----------------------------------------------------------------------------
(* CsvMerger: the functions.                                               *)

\* The scan of _parse_csv_row from character i on: start is where the
\* current field starts, protected whether a quote is open.
RECURSIVE ParseFrom(_, _, _, _, _)
ParseFrom(row, sep, i, start, protected) ==
    IF i > Len(row) THEN <<SubSeq(row, start, Len(row))>>
    ELSE IF row[i] = sep /\ ~protected
    THEN <<SubSeq(row, start, i - 1)>>
             \o ParseFrom(row, sep, i + 1, i + 1, protected)
    ELSE IF row[i] = QUOTE
    THEN ParseFrom(row, sep, i + 1, start, ~protected)
    ELSE ParseFrom(row, sep, i + 1, start, protected)

\* _parse_csv_row.
ParseCsvRow(row, sep) == ParseFrom(StripNL(row), sep, 1, 1, FALSE)

\* A variant of Missing that looks at the first column only.
MissingFirst(local_header, global_header) ==
    IF \E k \in 1..Len(global_header) : global_header[k] = Head(local_header)
    THEN <<>> ELSE <<Head(local_header)>>

\* The columns of merged_header that main_header lacks.
RECURSIVE Missing(_, _)
Missing(local_header, global_header) ==
    IF local_header = <<>> THEN <<>>
    ELSE (IF \E k \in 1..Len(global_header) : global_header[k] = Head(local_header)
          THEN <<>> ELSE <<Head(local_header)>>)
             \o Missing(Tail(local_header), global_header)

\* A variant of BuildIndex that aligns the columns by position, not by name.
BuildIndexByPlace(local_header, global_header) ==
    [k \in 1..Len(global_header) |-> IF k <= Len(local_header) THEN k - 1 ELSE -1]

\* _build_index: for each column of global_header its place in local_header,
\* from 0; -1 stands for None.
BuildIndex(local_header, global_header) ==
    [k \in 1..Len(global_header) |-> ListIndex(local_header, global_header[k])]

\* _sort_csv_row can read every field the index names.
CanSortCsvRow(row, idx, sep) ==
    \A k \in 1..Len(idx) : idx[k] < Len(ParseCsvRow(row, sep))

\* _sort_csv_row.
SortCsvRow(row, idx, sep) ==
    LET fields == ParseCsvRow(row, sep)
    IN  [k \in 1..Len(idx) |-> IF idx[k] = -1 THEN <<>> ELSE fields[idx[k] + 1]]

\* _read_header: the first line of a file, parsed.
ReadHeader(content, sep) ==
    ParseCsvRow(IF content = <<>> THEN <<>> ELSE Head(Lines(content)), sep)

----------------------------------------------------------------------------
(* CsvMerger: the files merge_files is given.                              *)

MaxMergedRows == 2

Seps == {COMMA, SEMICOLON}

ColA == <<"a">>
ColB == <<"b">>
ColC == <<"c">>

\* Headers and rows, as lists of fields.
MainHeaders == {<<ColA, ColB>>, <<ColB, ColA>>, <<ColA>>}
MergedHeaders == {<<ColA, ColB>>, <<ColB, ColA>>, <<ColA>>, <<ColA, ColC>>,
                  <<ColC>>}
MainRows == {<<>>, << <<<<"x">>, <<"y">>>> >>}
MergedRowPool == { <<<<"x">>, <<"y">>>>,
                   <<<<"x">>>>,
                   <<<<"x">>, <<"y">>, <<"z">>>> }
MergedRows == UNION {[1..n -> MergedRowPool] : n \in 0..MaxMergedRows}

\* The text of a csv file of the given header and rows, written with sep.
CsvText(head, rows, sep, ends_nl) ==
    LET all == <<Join(sep, head)>>
                   \o [i \in 1..Len(rows) |-> Join(sep, rows[i])]
    IN  Join(NL, all) \o (IF ends_nl THEN <<NL>> ELSE <<>>)

----------------------------------------------------------------------------
(* CsvMerger: the steps of merge_files.                                    *)

MergeRaise(type, missing) ==
    /\ merge_pc' = "raised"
    /\ merge_err' = [type |-> type, missing |-> missing]

\* merge_files, up to the choice of how to merge: both headers are read,
\* main_file is opened for appending, the headers are compared.
MergeFiles ==
    /\ merge_pc = "idle"
    /\ LET h1 == ReadHeader(main_file, main_sep)
           h2 == ReadHeader(merged_file, merged_sep)
           missing == Missing(h2, h1)
       IN  /\ main_header' = h1
           /\ merged_header' = h2
           /\ infile' = IF merged_file = <<>> THEN <<>>
                        ELSE Tail(Lines(merged_file))
           /\ IF missing # <<>>
              THEN /\ MergeRaise("ValueError", missing)
                   /\ UNCHANGED index
              ELSE IF h1 = h2
              THEN /\ merge_pc' = "copy"
                   /\ UNCHANGED <<index, merge_err>>
              ELSE /\ index' = BuildIndex(h2, h1)
                   /\ merge_pc' = "rows"
                   /\ UNCHANGED merge_err
    /\ UNCHANGED <<main_file, merged_file, main_sep, merged_sep, main_before>>
    /\ UNCHANGED nonMergerVars

\* A variant of CopyFileObj that copies merged_file from its first line.
CopyFileObjWhole ==
    /\ merge_pc = "copy"
    /\ main_file' = main_file \o merged_file
    /\ infile' = <<>>
    /\ merge_pc' = "done"
    /\ UNCHANGED <<merged_file, main_sep, merged_sep, main_header,
                   merged_header, index, merge_err, main_before>>
    /\ UNCHANGED nonMergerVars

\* shutil.copyfileobj(infile, outfile), and both files are closed.
CopyFileObj ==
    /\ merge_pc = "copy"
    /\ main_file' = main_file \o Concat(infile)
    /\ infile' = <<>>
    /\ merge_pc' = "done"
    /\ UNCHANGED <<merged_file, main_sep, merged_sep, main_header,
                   merged_header, index, merge_err, main_before>>
    /\ UNCHANGED nonMergerVars

\* One turn of the loop over the rows of infile.
MergeRow ==
    /\ merge_pc = "rows"
    /\ infile # <<>>
    /\ infile' = Tail(infile)
    /\ IF CanSortCsvRow(Head(infile), index, merged_sep)
       THEN /\ main_file' = main_file
                   \o Join(main_sep, SortCsvRow(Head(infile), index, merged_sep))
                   \o <<NL>>
            /\ UNCHANGED <<merge_pc, merge_err>>
       ELSE /\ MergeRaise("IndexError", <<>>)
            /\ UNCHANGED main_file
    /\ UNCHANGED <<merged_file, main_sep, merged_sep, main_header,
                   merged_header, index, main_before>>
    /\ UNCHANGED nonMergerVars

\* The loop over the rows ends and both files are closed.
MergeEnd ==
    /\ merge_pc = "rows"
    /\ infile = <<>>
    /\ merge_pc' = "done"
    /\ UNCHANGED <<main_file, merged_file, main_sep, merged_sep, main_header,
                   merged_header, infile, index, merge_err, main_before>>
    /\ UNCHANGED nonMergerVars

----------------------------------------------------------------------------
(* CsvMerger: paths and the files to stage.                                *)

MaxStaged == 2
MaxStagePaths == 2

DotCsv == <<".", "c", "s", "v">>
DotTxt == <<".", "t", "x", "t">>

\* Absolute paths: two csv files, a file that is no csv file, a folder that
\* holds a csv file and another file, and a path to nothing.
Path1 == <<"/", "1">> \o DotCsv
Path2 == <<"/", "2">> \o DotCsv
PathTxt == <<"/", "1">> \o DotTxt
PathDir == <<"/", "d">>
PathDirCsv == PathDir \o <<"/", "3">> \o DotCsv
PathDirTxt == PathDir \o <<"/", "3">> \o DotTxt
PathMissing == <<"/", "9">> \o DotCsv

Folders == {PathDir}

\* path.endswith(suffix).
EndsWith(path, suffix) ==
    /\ Len(path) >= Len(suffix)
    /\ SubSeq(path, Len(path) - Len(suffix) + 1, Len(path)) = suffix

\* Position of the last c in s, 0 when there is none.
LastIndex(s, c) ==
    IF \E i \in 1..Len(s) : s[i] = c
    THEN CHOOSE i \in 1..Len(s) : s[i] = c /\ \A j \in (i + 1)..Len(s) : s[j] # c
    ELSE 0

\* os.path.dirname, os.path.basename and os.path.join.
DirName(path) == SubSeq(path, 1, LastIndex(path, "/") - 1)
BaseName(path) == SubSeq(path, LastIndex(path, "/") + 1, Len(path))
PathJoin(dirname, filename) == dirname \o <<"/">> \o filename

\* os.listdir(dirname): the names of the files the folder holds.
FolderNames(dirname) ==
    {BaseName(path) : path \in {q \in DOMAIN files : DirName(q) = dirname}}

\* alphanum_sort(names): the names in the order of their natural-order keys.
AlphanumSort(names) ==
    CHOOSE p \in ListDir(names) :
        \A i, j \in 1..Len(p) :
            i < j => KeyLeq(AlphanumKey(p[i]), AlphanumKey(p[j]))

\* The texts a staged csv file may hold: columns a,b; columns b,a with a row
\* of one field; the column a twice; columns a,b separated by commas.
StagedTexts ==
    { <<"a", SEMICOLON, "b", NL, "x", SEMICOLON, "y", NL>>,
      <<"b", SEMICOLON, "a", NL, "x", NL>>,
      <<"a", SEMICOLON, "a", NL, "x", SEMICOLON, "y", NL>>,
      <<"a", COMMA, "b", NL, "x", COMMA, "y", NL>> }

\* The arguments of stage: a path, or a list of paths.
StagePaths == {Path1, Path2, PathTxt, PathDir, PathMissing}
StageArgs == UNION {[1..n -> StagePaths] : n \in 1..MaxStagePaths}

----------------------------------------------------------------------------
(* CsvMerger: stage and merge_staged_files.                                *)

\* add_file_if_csv.
AddFileIfCsv(staged, path, sep) ==
    IF EndsWith(path, DotCsv)
    THEN Append(staged, [path |-> path, sep |-> sep]) ELSE staged

\* The loop of stage over the files of a folder.
RECURSIVE AddFolder(_, _, _, _)
AddFolder(staged, dirname, filenames, sep) ==
    IF filenames = <<>> THEN staged
    ELSE AddFolder(AddFileIfCsv(staged, PathJoin(dirname, Head(filenames)), sep),
                   dirname, Tail(filenames), sep)

\* The loop of stage over the paths: the staged list it leaves, and whether
\* it raised FileNotFoundError.
RECURSIVE StageFrom(_, _, _)
StageFrom(staged, paths, sep) ==
    IF paths = <<>> THEN [staged |-> staged, raised |-> FALSE]
    ELSE IF Head(paths) \in DOMAIN files
    THEN StageFrom(AddFileIfCsv(staged, Head(paths), sep), Tail(paths), sep)
    ELSE IF Head(paths) \in Folders
    THEN StageFrom(AddFolder(staged, Head(paths),
                             AlphanumSort(FolderNames(Head(paths))), sep),
                   Tail(paths), sep)
    ELSE [staged |-> staged, raised |-> TRUE]

\* stage. A call that would stage more than MaxStaged files is left out.
Stage ==
    /\ stage_pc = "idle"
    /\ \E paths \in StageArgs, sep \in Seps :
         LET r == StageFrom(staged_files, paths, sep)
         IN  /\ Len(r.staged) <= MaxStaged
             /\ staged_files' = r.staged
             /\ stage_err' = IF r.raised
                             THEN [type |-> "FileNotFoundError", where |-> "stage"]
                             ELSE NoError
    /\ UNCHANGED <<files, stage_pc, staged_header, out_sep, remove_merged,
                   merge_k, outVars>>
    /\ UNCHANGED <<nonStageVars, mergerVars>>

\* global_header.extend([name for name in file_header
\*                       if name not in global_header]).
ExtendHeader(header_so_far, file_header) ==
    header_so_far
        \o SelectSeq(file_header, LAMBDA name : name \notin
                         {header_so_far[k] : k \in 1..Len(header_so_far)})

\* get_staged_files_header.
RECURSIVE GetStagedFilesHeader(_)
GetStagedFilesHeader(staged) ==
    IF staged = <<>> THEN <<>>
    ELSE LET last == staged[Len(staged)]
         IN  ExtendHeader(GetStagedFilesHeader(SubSeq(staged, 1, Len(staged) - 1)),
                          ReadHeader(files[last.path], last.sep))

\* staged_files.sort(key=lambda x: _alphanum_key(x[0])): a stable sort.
RECURSIVE InsertStaged(_, _)
InsertStaged(sorted, file) ==
    IF sorted = <<>> THEN <<file>>
    ELSE IF KeyLess(AlphanumKey(file.path), AlphanumKey(sorted[1].path))
    THEN <<file>> \o sorted
    ELSE <<sorted[1]>> \o InsertStaged(Tail(sorted), file)

RECURSIVE SortStaged(_)
SortStaged(staged) ==
    IF staged = <<>> THEN <<>>
    ELSE InsertStaged(SortStaged(SubSeq(staged, 1, Len(staged) - 1)),
                      staged[Len(staged)])

\* merge_staged_files, up to the loop over the staged files: the output
\* file is written anew with the union header. From then on the file at
\* output_path is main_file, be it a file that was on disk before or not.
MergeStagedFilesWith(output_path, sep, remove, sort_files) ==
    /\ stage_pc = "idle"
    /\ staged_header' = GetStagedFilesHeader(staged_files)
    /\ out_path' = output_path
    /\ out_exists' = TRUE
    /\ files_before' = files
    /\ files' = [q \in DOMAIN files \ {output_path} |-> files[q]]
    /\ main_file' = Join(sep, staged_header') \o <<NL>>
    /\ staged_files' = IF sort_files THEN SortStaged(staged_files)
                       ELSE staged_files
    /\ out_sep' = sep
    /\ remove_merged' = remove
    /\ merge_k' = 1
    /\ stage_pc' = "merging"
    /\ stage_err' = NoError
    /\ UNCHANGED <<merged_file, main_sep, merged_sep, main_header,
                   merged_header, infile, index, merge_pc, merge_err,
                   main_before>>
    /\ UNCHANGED nonStageVars

\* The paths of the output file: a path to nothing yet, and the path of a
\* csv file that may be staged.
PathOut == <<"/", "o">> \o DotCsv
OutPaths == {PathOut, Path1}

\* A call of merge_staged_files.
MergeStagedFiles ==
    \E output_path \in OutPaths, sep \in Seps, remove \in BOOLEAN,
       sort_files \in BOOLEAN :
        MergeStagedFilesWith(output_path, sep, remove, sort_files)

\* One turn of the loop over the staged files: merge_files is called.
CallMergeFiles ==
    /\ stage_pc = "merging"
    /\ merge_pc = "off"
    /\ merge_k <= Len(staged_files)
    /\ IF \/ ~out_exists
          \/ /\ staged_files[merge_k].path # out_path
             /\ staged_files[merge_k].path \notin DOMAIN files
       THEN /\ stage_pc' = "raised"
            /\ stage_err' = [type |-> "FileNotFoundError", where |-> "merge_files"]
            /\ UNCHANGED <<merged_file, main_sep, merged_sep, merge_pc,
                           merge_err, main_before>>
       ELSE /\ merged_file' = IF staged_files[merge_k].path = out_path
                              THEN main_file
                              ELSE files[staged_files[merge_k].path]
            /\ main_sep' = out_sep
            /\ merged_sep' = staged_files[merge_k].sep
            /\ merge_pc' = "idle"
            /\ merge_err' = [type |-> "", missing |-> <<>>]
            /\ main_before' = main_file
            /\ UNCHANGED <<stage_pc, stage_err>>
    /\ UNCHANGED <<files, staged_files, staged_header, out_sep, remove_merged,
                   merge_k, outVars, main_file, main_header, merged_header,
                   infile, index>>
    /\ UNCHANGED nonStageVars

\* merge_files has returned: the merged file is removed if asked.
ReturnMergeFiles ==
    /\ stage_pc = "merging"
    /\ merge_pc = "done"
    /\ files' = IF remove_merged
                THEN [q \in DOMAIN files \ {staged_files[merge_k].path} |-> files[q]]
                ELSE files
    /\ out_exists' = ~(remove_merged /\ staged_files[merge_k].path = out_path)
    /\ UNCHANGED <<out_path, files_before>>
    /\ merge_k' = merge_k + 1
    /\ merge_pc' = "off"
    /\ UNCHANGED <<staged_files, stage_pc, stage_err, staged_header, out_sep,
                   remove_merged, main_file, merged_file, main_sep, merged_sep,
                   main_header, merged_header, infile, index, merge_err,
                   main_before>>
    /\ UNCHANGED nonStageVars

\* merge_files has raised: the exception leaves merge_staged_files.
RaiseMergeFiles ==
    /\ stage_pc = "merging"
    /\ merge_pc = "raised"
    /\ stage_pc' = "raised"
    /\ stage_err' = [type |-> merge_err.type, where |-> "merge_files"]
    /\ UNCHANGED <<files, staged_files, staged_header, out_sep, remove_merged,
                   merge_k, outVars>>
    /\ UNCHANGED <<nonStageVars, mergerVars>>

\* The loop over the staged files has ended: the files are unstaged.
EndMergeStaged ==
    /\ stage_pc = "merging"
    /\ merge_pc = "off"
    /\ merge_k > Len(staged_files)
    /\ staged_files' = <<>>
    /\ stage_pc' = "done"
    /\ UNCHANGED <<files, stage_err, staged_header, out_sep, remove_merged,
                   merge_k, outVars>>
    /\ UNCHANGED <<nonStageVars, mergerVars>>

----------------------------------------------------------------------------
(* CsvSorter: the specification.                                           *)

\* No call of merge_files: the state of a merger that is not used.
MergerIdle ==
    /\ main_file = <<>>
    /\ merged_file = <<>>
    /\ main_sep = SEMICOLON
    /\ merged_sep = SEMICOLON
    /\ main_header = <<>>
    /\ merged_header = <<>>
    /\ infile = <<>>
    /\ index = <<>>
    /\ merge_pc = "off"
    /\ merge_err = [type |-> "", missing |-> <<>>]
    /\ main_before = <<>>

\* No staged file, and no file on disk to stage.
StageIdle ==
    /\ files = <<>>
    /\ staged_files = <<>>
    /\ stage_pc = "off"
    /\ stage_err = NoError
    /\ staged_header = <<>>
    /\ out_sep = SEMICOLON
    /\ remove_merged = FALSE
    /\ merge_k = 0
    /\ out_path = <<>>
    /\ out_exists = FALSE
    /\ files_before = <<>>

\* No csv writer.
WriterIdle ==
    /\ w_class = "none"
    /\ w_buffer_size = 1
    /\ w_write_index = FALSE
    /\ w_exists = FALSE
    /\ w_file = <<>>
    /\ w_first = <<>>
    /\ w_header = <<>>
    /\ w_buffer = <<>>
    /\ w_has_changed = FALSE
    /\ w_stored = 0
    /\ w_pc = "off"
    /\ w_handled = 0
    /\ w_seen = <<>>
    /\ w_flushed = <<>>
    /\ w_failed = FALSE

\* No call of _parse_csv_row on its own.
ParserIdle ==
    /\ parse_row = <<>>
    /\ parse_sep = COMMA
    /\ parse_fields = <<>>
    /\ parse_pc = "off"

\* A sorter that had no call of sort_file yet, and no call of
\* _parse_csv_row on its own.
NoCallBefore == prev_err = NoError /\ ParserIdle

\* No sort_file operation in flight.
ConcIdle ==
    /\ tempdir = <<>>
    /\ sorter_of = <<>>
    /\ op_tempfiles = <<>>
    /\ op_pc = <<>>
    /\ op_err = <<>>
    /\ op_step = <<>>
    /\ tmp = <<>>
    /\ touched = <<>>

\* No transformer.
TransformerIdle ==
    /\ tr_pc = "off"
    /\ tr_err = NoError
    /\ reader_chunksize = 1
    /\ sorting_column = RandomAxis
    /\ assign_as_data = FALSE
    /\ filepath = "input"
    /\ store_file = <<>>
    /\ results = <<>>
    /\ store_files = <<>>

\* No call of sort_file: the state of a sorter that is not used.
SorterIdle ==
    /\ chunksize = 1
    /\ max_open = 1
    /\ tempdir_exists = FALSE
    /\ dirs = <<>>
    /\ input_exists = FALSE
    /\ has_header = FALSE
    /\ sorting_axis = RandomAxis
    /\ input_file = <<>>
    /\ out_dir_exists = FALSE
    /\ output_exists = FALSE
    /\ output_file = <<>>
    /\ header = NoHeader
    /\ sorting_key = NoKey
    /\ pc = "off"
    /\ err = NoError
    /\ step_n = 0
    /\ temp_files = <<>>
    /\ group_i = 0
    /\ to_merge = <<>>
    /\ open_runs = {}
    /\ writing = {}
    /\ gen_sizes = <<>>

Init ==
    /\ WriterIdle
    /\ NoCallBefore
    /\ chunksize \in ChunkSizes
    /\ max_open \in MaxOpens
    /\ tempdir_exists = FALSE
    /\ dirs = <<>>
    /\ input_exists \in BOOLEAN
    /\ has_header \in BOOLEAN
    /\ sorting_axis \in Axes
    /\ \E rows \in RowSeqs, ends_nl \in BOOLEAN :
         input_file = IF input_exists
                      THEN FileContent(has_header, rows, ends_nl)
                      ELSE <<>>
    /\ out_dir_exists \in BOOLEAN
    /\ output_exists = FALSE
    /\ output_file = <<>>
    /\ header = NoHeader
    /\ sorting_key = NoKey
    /\ pc = "idle"
    /\ err = NoError
    /\ step_n = 0
    /\ temp_files = <<>>
    /\ group_i = 0
    /\ to_merge = <<>>
    /\ open_runs = {}
    /\ writing = {}
    /\ gen_sizes = <<>>
    /\ MergerIdle
    /\ StageIdle
    /\ ConcIdle
    /\ TransformerIdle

Next ==
    \/ SortFile
    \/ InitialStep
    \/ ListRuns
    \/ StartGroup
    \/ OpenRun
    \/ WriteMerged
    \/ RemoveStep
    \/ CleanupStep

Spec == Init /\ [][Next]_vars

----------------------------------------------------------------------------
(* CsvSorter: a call of sort_file after one that failed.                   *)

\* The input files of the later call: two rows, the last line ended by a
\* newline.
RetryRowSeqs == {rows \in RowSeqs : Len(rows) = 2}

\* sort_file is called again on the sorter whose call has raised, with
\* arguments that are valid: an input file that exists and holds rows, its
\* first column as sorting_axis. The sorter is the same: its chunksize, its
\* max_open, its tempdir and what the failed call left there. The action is
\* sort_file up to the call of _initial_step.
SortFileAgain ==
    /\ pc = "raised"
    /\ prev_err = NoError
    /\ prev_err' = err
    /\ \E rows \in RetryRowSeqs, with_header \in BOOLEAN :
         /\ input_file' = FileContent(with_header, rows, TRUE)
         /\ has_header' = with_header
    /\ input_exists' = TRUE
    /\ sorting_axis' = IndexAxis(0)
    /\ out_dir_exists' = TRUE
    /\ pc' = "initial"
    /\ err' = NoError
    /\ header' = NoHeader
    /\ sorting_key' = NoKey
    /\ step_n' = 0
    /\ temp_files' = <<>>
    /\ group_i' = 0
    /\ to_merge' = <<>>
    /\ open_runs' = {}
    /\ writing' = {}
    /\ gen_sizes' = <<>>
    /\ UNCHANGED <<chunksize, max_open, tempdir_exists, dirs, output_exists,
                   output_file>>
    /\ UNCHANGED <<mergerVars, stageVars, concVars, transformerVars,
                   writerVars, parseVars>>

RetryNext ==
    \/ Next
    \/ SortFileAgain

RetrySpec == Init /\ [][RetryNext]_vars

----------------------------------------------------------------------------
(* CsvMerger: the specification.                                           *)

MergerInit ==
    /\ WriterIdle
    /\ NoCallBefore
    /\ SorterIdle
    /\ StageIdle
    /\ ConcIdle
    /\ TransformerIdle
    /\ main_sep \in Seps
    /\ merged_sep \in Seps
    /\ \E head \in MainHeaders, rows \in MainRows, sep \in Seps,
          ends_nl \in BOOLEAN :
         main_file = CsvText(head, rows, sep, ends_nl)
    /\ \E head \in MergedHeaders, rows \in MergedRows, sep \in Seps,
          ends_nl \in BOOLEAN :
         merged_file = CsvText(head, rows, sep, ends_nl)
    /\ main_header = <<>>
    /\ merged_header = <<>>
    /\ infile = <<>>
    /\ index = <<>>
    /\ merge_pc = "idle"
    /\ merge_err = [type |-> "", missing |-> <<>>]
    /\ main_before = main_file

MergerNext ==
    \/ MergeFiles
    \/ CopyFileObj
    \/ MergeRow
    \/ MergeEnd

MergerSpec == MergerInit /\ [][MergerNext]_vars

----------------------------------------------------------------------------
(* CsvMerger: the specification of stage and merge_staged_files.           *)

StageInit ==
    /\ WriterIdle
    /\ NoCallBefore
    /\ SorterIdle
    /\ MergerIdle
    /\ ConcIdle
    /\ TransformerIdle
    /\ \E text1, text2 \in StagedTexts :
         files = (Path1 :> text1) @@ (Path2 :> text2)
                     @@ (PathTxt :> <<"x", NL>>)
                     @@ (PathDirCsv :> <<"a", SEMICOLON, "b", NL,
                                         "x", SEMICOLON, "y", NL>>)
                     @@ (PathDirTxt :> <<"x", NL>>)
    /\ staged_files = <<>>
    /\ stage_pc = "idle"
    /\ stage_err = NoError
    /\ staged_header = <<>>
    /\ out_sep = SEMICOLON
    /\ remove_merged = FALSE
    /\ merge_k = 0
    /\ out_path = <<>>
    /\ out_exists = FALSE
    /\ files_before = <<>>

StageNext ==
    \/ Stage
    \/ MergeStagedFiles
    \/ CallMergeFiles
    \/ MergeFiles
    \/ CopyFileObj
    \/ MergeRow
    \/ MergeEnd
    \/ ReturnMergeFiles
    \/ RaiseMergeFiles
    \/ EndMergeStaged

StageSpec == StageInit /\ [][StageNext]_vars

----------------------------------------------------------------------------
(* CsvSorter: sort_file operations in flight at the same time.             *)

MaxTempfiles == 2

\* The operations, and the sorters they are called on.
Ops == {1, 2}
Sorters == {1, 2}

\* CsvSorter.__init__: tempfile.mkdtemp gives each sorter a name of its own,
\* and the folder of that name is removed at once.
MkDTemp == [s \in Sorters |-> IF s = 1 THEN "tmp1" ELSE "tmp2"]

\* CsvSorter.__init__: the default max_open.
DefaultMaxOpen == 200

\* The files _initial_step writes: n_tempfiles - 1 files in the loop, and
\* the file of cardinal n_tempfiles - 1 after it.
InitialCardinals(n) == (0..(n - 2)) \cup {n - 1}

\* The operations that wrote the files of a folder.
Writers(folder) == {folder[f] : f \in DOMAIN folder}

\* The operations that wrote the files of a working directory.
TreeWriters(tree) == UNION {Writers(tree[g]) : g \in DOMAIN tree}

WorkingDir(o) == tempdir[sorter_of[o]]

OpRaise(o, type, where) ==
    /\ op_pc' = [op_pc EXCEPT ![o] = "raised"]
    /\ op_err' = [op_err EXCEPT ![o] = [type |-> type, where |-> where]]

\* sort_file, up to the creation of the working directory.
OpSortFile(o) ==
    /\ op_pc[o] = "idle"
    /\ op_pc' = [op_pc EXCEPT ![o] = "initial"]
    /\ UNCHANGED <<tempdir, sorter_of, op_tempfiles, op_err, op_step, tmp,
                   touched>>
    /\ UNCHANGED <<sorterVars, mergerVars, stageVars, transformerVars, writerVars, callVars>>

\* _initial_step: os.makedirs(self.tempdir).
OpMakeDirs(o) ==
    /\ op_pc[o] = "initial"
    /\ IF WorkingDir(o) \in DOMAIN tmp
       THEN /\ OpRaise(o, "FileExistsError", "_initial_step")
            /\ UNCHANGED tmp
       ELSE /\ tmp' = tmp @@ (WorkingDir(o) :> <<>>)
            /\ op_pc' = [op_pc EXCEPT ![o] = "write"]
            /\ UNCHANGED op_err
    /\ UNCHANGED <<tempdir, sorter_of, op_tempfiles, op_step, touched>>
    /\ UNCHANGED <<sorterVars, mergerVars, stageVars, transformerVars, writerVars, callVars>>

\* _initial_step: the folder of step 0 and the initial temporary files.
OpWriteTempfiles(o) ==
    /\ op_pc[o] = "write"
    /\ IF WorkingDir(o) \notin DOMAIN tmp
       THEN /\ OpRaise(o, "FileNotFoundError", "_initial_step")
            /\ UNCHANGED <<tmp, touched>>
       ELSE IF 0 \in DOMAIN tmp[WorkingDir(o)]
       THEN /\ OpRaise(o, "FileExistsError", "_initial_step")
            /\ UNCHANGED <<tmp, touched>>
       ELSE /\ tmp' = [tmp EXCEPT ![WorkingDir(o)] =
                          (0 :> [f \in InitialCardinals(op_tempfiles[o]) |-> o])]
            /\ op_pc' = [op_pc EXCEPT ![o] = "list"]
            /\ UNCHANGED <<op_err, touched>>
    /\ UNCHANGED <<tempdir, sorter_of, op_tempfiles, op_step>>
    /\ UNCHANGED <<sorterVars, mergerVars, stageVars, transformerVars, writerVars, callVars>>

\* _merging_steps: the files of the step are listed and, unless there is
\* one file, the folder of the next step is made.
OpListRuns(o) ==
    /\ op_pc[o] = "list"
    /\ IF \/ WorkingDir(o) \notin DOMAIN tmp
          \/ op_step[o] \notin DOMAIN tmp[WorkingDir(o)]
       THEN /\ OpRaise(o, "FileNotFoundError", "_merging_steps")
            /\ UNCHANGED <<tmp, touched>>
       ELSE LET folder == tmp[WorkingDir(o)][op_step[o]]
            IN  /\ touched' = [touched EXCEPT ![o] = @ \cup Writers(folder)]
                /\ IF Cardinality(DOMAIN folder) = 1
                   THEN /\ op_pc' = [op_pc EXCEPT ![o] = "cleanup"]
                        /\ UNCHANGED <<tmp, op_err>>
                   ELSE IF (op_step[o] + 1) \in DOMAIN tmp[WorkingDir(o)]
                   THEN /\ OpRaise(o, "FileExistsError", "_merging_steps")
                        /\ UNCHANGED tmp
                   ELSE /\ tmp' = [tmp EXCEPT ![WorkingDir(o)] =
                                      @ @@ ((op_step[o] + 1) :> <<>>)]
                        /\ op_pc' = [op_pc EXCEPT ![o] = "merge"]
                        /\ UNCHANGED op_err
    /\ UNCHANGED <<tempdir, sorter_of, op_tempfiles, op_step>>
    /\ UNCHANGED <<sorterVars, mergerVars, stageVars, transformerVars, writerVars, callVars>>

\* _merging_steps: the files of the step are read by groups of max_open and
\* each group is written to a file of the next step.
OpMerge(o) ==
    /\ op_pc[o] = "merge"
    /\ IF \/ WorkingDir(o) \notin DOMAIN tmp
          \/ op_step[o] \notin DOMAIN tmp[WorkingDir(o)]
          \/ (op_step[o] + 1) \notin DOMAIN tmp[WorkingDir(o)]
       THEN /\ OpRaise(o, "FileNotFoundError", "_merging_steps")
            /\ UNCHANGED <<tmp, touched>>
       ELSE LET tree == tmp[WorkingDir(o)]
                folder == tree[op_step[o]]
                listed == Cardinality(DOMAIN folder)
                groups == (listed + DefaultMaxOpen - 1) \div DefaultMaxOpen
                next == tree[op_step[o] + 1]
                written == 0..(groups - 1)
            IN  /\ touched' = [touched EXCEPT ![o] =
                                  @ \cup Writers(folder)
                                    \cup {next[f] : f \in written \cap DOMAIN next}]
                /\ tmp' = [tmp EXCEPT ![WorkingDir(o)][op_step[o] + 1] =
                              [f \in written \cup DOMAIN next |->
                                  IF f \in written THEN o ELSE next[f]]]
                /\ op_pc' = [op_pc EXCEPT ![o] = "rmtree"]
                /\ UNCHANGED op_err
    /\ UNCHANGED <<tempdir, sorter_of, op_tempfiles, op_step>>
    /\ UNCHANGED <<sorterVars, mergerVars, stageVars, transformerVars, writerVars, callVars>>

\* _merging_steps: the folder of the step is removed, the step incremented.
OpRemoveStep(o) ==
    /\ op_pc[o] = "rmtree"
    /\ IF \/ WorkingDir(o) \notin DOMAIN tmp
          \/ op_step[o] \notin DOMAIN tmp[WorkingDir(o)]
       THEN /\ OpRaise(o, "FileNotFoundError", "_merging_steps")
            /\ UNCHANGED <<tmp, touched, op_step>>
       ELSE LET tree == tmp[WorkingDir(o)]
            IN  /\ touched' = [touched EXCEPT ![o] =
                                  @ \cup Writers(tree[op_step[o]])]
                /\ tmp' = [tmp EXCEPT ![WorkingDir(o)] =
                              [g \in DOMAIN tree \ {op_step[o]} |-> tree[g]]]
                /\ op_step' = [op_step EXCEPT ![o] = @ + 1]
                /\ op_pc' = [op_pc EXCEPT ![o] = "list"]
                /\ UNCHANGED op_err
    /\ UNCHANGED <<tempdir, sorter_of, op_tempfiles>>
    /\ UNCHANGED <<sorterVars, mergerVars, stageVars, transformerVars, writerVars, callVars>>

\* _cleanup_step: the file 0.tmp of the last step is read and the working
\* directory removed.
OpCleanupStep(o) ==
    /\ op_pc[o] = "cleanup"
    /\ IF \/ WorkingDir(o) \notin DOMAIN tmp
          \/ op_step[o] \notin DOMAIN tmp[WorkingDir(o)]
          \/ 0 \notin DOMAIN tmp[WorkingDir(o)][op_step[o]]
       THEN /\ OpRaise(o, "FileNotFoundError", "_cleanup_step")
            /\ UNCHANGED <<tmp, touched>>
       ELSE /\ touched' = [touched EXCEPT ![o] =
                              @ \cup TreeWriters(tmp[WorkingDir(o)])]
            /\ tmp' = [d \in DOMAIN tmp \ {WorkingDir(o)} |-> tmp[d]]
            /\ op_pc' = [op_pc EXCEPT ![o] = "done"]
            /\ UNCHANGED op_err
    /\ UNCHANGED <<tempdir, sorter_of, op_tempfiles, op_step>>
    /\ UNCHANGED <<sorterVars, mergerVars, stageVars, transformerVars, writerVars, callVars>>

\* Two sorters built, and two calls of sort_file about to be made, on one
\* sorter or on both.
ConcInit ==
    /\ WriterIdle
    /\ NoCallBefore
    /\ SorterIdle
    /\ MergerIdle
    /\ StageIdle
    /\ TransformerIdle
    /\ tempdir = MkDTemp
    /\ sorter_of \in [Ops -> Sorters]
    /\ op_tempfiles \in [Ops -> 0..MaxTempfiles]
    /\ op_pc = [o \in Ops |-> "idle"]
    /\ op_err = [o \in Ops |-> NoError]
    /\ op_step = [o \in Ops |-> 0]
    /\ tmp = <<>>
    /\ touched = [o \in Ops |-> {}]

ConcNext ==
    \E o \in Ops :
        \/ OpSortFile(o)
        \/ OpMakeDirs(o)
        \/ OpWriteTempfiles(o)
        \/ OpListRuns(o)
        \/ OpMerge(o)
        \/ OpRemoveStep(o)
        \/ OpCleanupStep(o)

ConcSpec == ConcInit /\ [][ConcNext]_vars

----------------------------------------------------------------------------
(* LargeCsvTransformer: sort.                                              *)

\* The chunk sizes a transformer is built with (LargeCsvReader.__init__
\* refuses the others: chunksize <= 0).
TransformerChunkSizes == {2, 100}

\* sort's sorting_column: None, a cardinal or a name.
SortingColumns == {RandomAxis, IndexAxis(0), IndexAxis(1),
                   NameAxis(<<"a">>), NameAxis(<<"b">>)}

\* The csv file of the transformer: the header a,b and rows without quotes,
\* whose two columns are in opposite orders; the last line ends with a
\* newline.
TransformerRowPool == { <<"b", COMMA, "1">>, <<"a", COMMA, "2">> }
TransformerRowSeqs == UNION {[1..n -> TransformerRowPool] : n \in 0..MaxRows}

\* LargeCsvTransformer.sort: the max_open of the sorter it builds.
TransformerMaxOpen(size) == Min(100, size \div 100)

\* sort, up to the call of sort_file: the sorter is built and sort_file is
\* called with sorting_axis=None.
TransformerSort ==
    /\ tr_pc = "idle"
    /\ pc = "off"
    /\ chunksize' = reader_chunksize
    /\ max_open' = TransformerMaxOpen(reader_chunksize)
    /\ sorting_axis' = RandomAxis
    /\ pc' = "idle"
    /\ tr_pc' = "sort"
    /\ UNCHANGED <<tempdir_exists, dirs, input_exists, input_file,
                   out_dir_exists, output_exists, output_file, has_header,
                   header, sorting_key, err, step_n, temp_files, group_i,
                   to_merge, open_runs, writing, gen_sizes>>
    /\ UNCHANGED <<tr_err, reader_chunksize, sorting_column, assign_as_data,
                   filepath, store_file, results, store_files>>
    /\ UNCHANGED <<mergerVars, stageVars, concVars, writerVars, callVars>>

\* sort, once sort_file has returned.
TransformerSortEnd ==
    /\ tr_pc = "sort"
    /\ pc = "done"
    /\ filepath' = IF assign_as_data THEN "output" ELSE filepath
    /\ tr_pc' = "done"
    /\ UNCHANGED <<tr_err, reader_chunksize, sorting_column, assign_as_data,
                   store_file, results, store_files>>
    /\ UNCHANGED <<sorterVars, mergerVars, stageVars, concVars, writerVars, callVars>>

\* The exception sort_file raised leaves sort.
TransformerSortRaise ==
    /\ tr_pc = "sort"
    /\ pc = "raised"
    /\ tr_err' = err
    /\ tr_pc' = "raised"
    /\ UNCHANGED <<reader_chunksize, sorting_column, assign_as_data, filepath,
                   store_file, results, store_files>>
    /\ UNCHANGED <<sorterVars, mergerVars, stageVars, concVars, writerVars, callVars>>

\* A transformer on an existing csv file, and a call of sort about to be made.
TransformerSortInit ==
    /\ WriterIdle
    /\ NoCallBefore
    /\ MergerIdle
    /\ StageIdle
    /\ ConcIdle
    /\ chunksize = 1
    /\ max_open = 1
    /\ tempdir_exists = FALSE
    /\ dirs = <<>>
    /\ input_exists = TRUE
    /\ has_header \in BOOLEAN
    /\ sorting_axis = RandomAxis
    /\ \E rows \in TransformerRowSeqs :
         input_file = FileContent(has_header, rows, TRUE)
    /\ out_dir_exists \in BOOLEAN
    /\ output_exists = FALSE
    /\ output_file = <<>>
    /\ header = NoHeader
    /\ sorting_key = NoKey
    /\ pc = "off"
    /\ err = NoError
    /\ step_n = 0
    /\ temp_files = <<>>
    /\ group_i = 0
    /\ to_merge = <<>>
    /\ open_runs = {}
    /\ writing = {}
    /\ gen_sizes = <<>>
    /\ tr_pc = "idle"
    /\ tr_err = NoError
    /\ reader_chunksize \in TransformerChunkSizes
    /\ sorting_column \in SortingColumns
    /\ assign_as_data \in BOOLEAN
    /\ filepath = "input"
    /\ store_file = <<>>
    /\ results = <<>>
    /\ store_files = <<>>

\* The steps of sort. The sorter of a transformer merges temporary files
\* only when its chunksize is 100 or more and the file has more rows than
\* that: the files here are shorter, and the steps of a merge are not taken.
TransformerSortNext ==
    \/ TransformerSort
    \/ SortFile
    \/ InitialStep
    \/ ListRuns
    \/ CleanupStep
    \/ TransformerSortEnd
    \/ TransformerSortRaise

TransformerSortSpec == TransformerSortInit /\ [][TransformerSortNext]_vars

----------------------------------------------------------------------------
(* LargeCsvTransformer: map and apply with an output file.                 *)

MaxChunks == 2

\* What the function may return for a chunk: a DataFrame of one row with
\* one column, two columns or no column, or something that is no DataFrame.
Frame(columns, rows) == [frame |-> TRUE, columns |-> columns, rows |-> rows]
NotFrame == [frame |-> FALSE, columns |-> <<>>, rows |-> <<>>]
ResultPool == { Frame(<< <<"a">> >>, << << <<"x">> >> >>),
                Frame(<< <<"a">>, <<"b">> >>, << << <<"x">>, <<"y">> >> >>),
                Frame(<<>>, << <<>> >>),
                NotFrame }
ResultSeqs == UNION {[1..n -> ResultPool] : n \in 1..MaxChunks}

\* The output files: in an existing folder, in the current folder, and with
\* another extension than csv.
StoreFiles == { PathDir \o <<"/", "o">> \o DotCsv,
                <<"o">> \o DotCsv,
                PathDir \o <<"/", "o">> \o DotTxt }

\* A line of a csv file as the csv writer writes it: a lone empty field is
\* written as two quotes.
CsvLine(fields, sep) ==
    (IF fields = << <<>> >> THEN <<QUOTE, QUOTE>> ELSE Join(sep, fields))
        \o <<NL>>

\* chunk.to_csv(header=True, index=True, sep=';'): the header, whose first
\* field (the name of the index) is empty, then the rows, each after its
\* index label; first is the label of the first row.
RECURSIVE CsvRows(_, _, _)
CsvRows(rows, first, sep) ==
    IF rows = <<>> THEN <<>>
    ELSE CsvLine(<<IntToStr(first)>> \o Head(rows), sep)
             \o CsvRows(Tail(rows), first + 1, sep)

ToCsv(chunk, first, sep) ==
    CsvLine(<< <<>> >> \o chunk.columns, sep) \o CsvRows(chunk.rows, first, sep)

\* The number of rows of the first n results.
RECURSIVE RowsBefore(_, _)
RowsBefore(chunks, n) ==
    IF n = 0 THEN 0 ELSE RowsBefore(chunks, n - 1) + Len(chunks[n].rows)

\* temp_name.format(i).
TempName(name, i) ==
    LET dot == LastIndex(name, ".")
    IN  SubSeq(name, 1, dot - 1)
            \o <<"_", "p", "a", "r", "t">> \o IntToStr(i) \o <<".">>
            \o SubSeq(name, dot + 1, Len(name))

\* output_file[:-3] + 'pickle'.
PickleName(path) ==
    SubSeq(path, 1, Len(path) - 3) \o <<"p", "i", "c", "k", "l", "e">>

\* The files with one more file written.
WriteFile(disk, path, text) ==
    [q \in DOMAIN disk \cup {path} |-> IF q = path THEN text ELSE disk[q]]

\* _transform_store, up to the loop over the chunks.
TransformStore ==
    /\ tr_pc = "idle"
    /\ IF EndsWith(store_file, DotCsv)
       THEN /\ tr_pc' = "chunks"
            /\ UNCHANGED tr_err
       ELSE /\ tr_pc' = "raised"
            /\ tr_err' = [type |-> "ValueError",
                          where |-> "_check_output_file_validity"]
    /\ store_files' = <<>>
    /\ UNCHANGED <<reader_chunksize, sorting_column, assign_as_data, filepath,
                   store_file, results>>
    /\ UNCHANGED <<sorterVars, mergerVars, stageVars, concVars, writerVars, callVars>>

\* __transform_to_temporary_files: one chunk is transformed, and
\* __write_to_csv writes the result to its temporary file (or pickles it).
WriteToCsv ==
    /\ tr_pc = "chunks"
    /\ Len(store_files) < Len(results)
    /\ LET i == Len(store_files)
           chunk == results[i + 1]
           path == TempName(store_file, i)
       IN  /\ files' = IF chunk.frame
                       THEN WriteFile(files, path,
                                ToCsv(chunk, RowsBefore(results, i), SEMICOLON))
                       ELSE WriteFile(files, PickleName(path), <<>>)
           /\ store_files' = Append(store_files, path)
    /\ UNCHANGED <<tr_pc, tr_err, reader_chunksize, sorting_column,
                   assign_as_data, filepath, store_file, results>>
    /\ UNCHANGED <<staged_files, stage_pc, stage_err, staged_header, out_sep,
                   remove_merged, merge_k, outVars>>
    /\ UNCHANGED <<sorterVars, mergerVars, concVars, writerVars, callVars>>

\* __merge_temporary_files, up to the call of merge_staged_files: nothing
\* is merged if a temporary file is missing; otherwise a merger is built and
\* the temporary files are staged, with stage's default separator.
TransformerStage ==
    /\ tr_pc = "chunks"
    /\ Len(store_files) = Len(results)
    /\ IF \E k \in 1..Len(store_files) : store_files[k] \notin DOMAIN files
       THEN /\ tr_pc' = "done"
            /\ UNCHANGED <<tr_err, staged_files, stage_pc>>
       ELSE IF DirName(store_file) \notin Folders
       THEN /\ tr_pc' = "raised"
            /\ tr_err' = [type |-> "FileNotFoundError",
                          where |-> "CsvMerger.__init__"]
            /\ UNCHANGED <<staged_files, stage_pc>>
       ELSE LET r == StageFrom(<<>>, store_files, COMMA)
            IN  /\ staged_files' = r.staged
                /\ IF r.raised
                   THEN /\ tr_pc' = "raised"
                        /\ tr_err' = [type |-> "FileNotFoundError",
                                      where |-> "stage"]
                        /\ UNCHANGED stage_pc
                   ELSE /\ tr_pc' = "merge"
                        /\ stage_pc' = "idle"
                        /\ UNCHANGED tr_err
    /\ UNCHANGED <<reader_chunksize, sorting_column, assign_as_data, filepath,
                   store_file, results, store_files>>
    /\ UNCHANGED <<files, stage_err, staged_header, out_sep, remove_merged,
                   merge_k, outVars>>
    /\ UNCHANGED <<sorterVars, mergerVars, concVars, writerVars, callVars>>

\* __merge_temporary_files: merge_staged_files(basename, sort_files=True),
\* with its default separator and remove_merged.
TransformerMerge ==
    /\ tr_pc = "merge"
    /\ MergeStagedFilesWith(store_file, SEMICOLON, TRUE, TRUE)

\* merge_staged_files has returned, and so do __merge_temporary_files and
\* _transform_store.
TransformStoreEnd ==
    /\ tr_pc = "merge"
    /\ stage_pc = "done"
    /\ tr_pc' = "done"
    /\ UNCHANGED <<tr_err, reader_chunksize, sorting_column, assign_as_data,
                   filepath, store_file, results, store_files>>
    /\ UNCHANGED <<sorterVars, mergerVars, stageVars, concVars, writerVars, callVars>>

\* The exception merge_staged_files raised leaves _transform_store.
TransformStoreRaise ==
    /\ tr_pc = "merge"
    /\ stage_pc = "raised"
    /\ tr_pc' = "raised"
    /\ tr_err' = stage_err
    /\ UNCHANGED <<reader_chunksize, sorting_column, assign_as_data, filepath,
                   store_file, results, store_files>>
    /\ UNCHANGED <<sorterVars, mergerVars, stageVars, concVars, writerVars, callVars>>

\* A transformer, and a call of map or apply with an output file about to
\* be made.
TransformerStoreInit ==
    /\ WriterIdle
    /\ NoCallBefore
    /\ SorterIdle
    /\ MergerIdle
    /\ StageIdle
    /\ ConcIdle
    /\ tr_pc = "idle"
    /\ tr_err = NoError
    /\ reader_chunksize = 1
    /\ sorting_column = RandomAxis
    /\ assign_as_data = FALSE
    /\ filepath = "input"
    /\ store_file \in StoreFiles
    /\ results \in ResultSeqs
    /\ store_files = <<>>

TransformerStoreNext ==
    \/ TransformStore
    \/ WriteToCsv
    \/ TransformerStage
    \/ TransformerMerge
    \/ CallMergeFiles
    \/ MergeFiles
    \/ CopyFileObj
    \/ MergeRow
    \/ MergeEnd
    \/ ReturnMergeFiles
    \/ RaiseMergeFiles
    \/ EndMergeStaged
    \/ TransformStoreEnd
    \/ TransformStoreRaise

TransformerStoreSpec == TransformerStoreInit /\ [][TransformerStoreNext]_vars

----------------------------------------------------------------------------
(* The csv writers: DictCsvWriter and DataframeCsvWriter.                  *)

MaxRecords == 3

\* AbstractCsvWriter.__init__: the default separator.
WriterSep == SEMICOLON

\* The buffer sizes a writer is built with.
WriterBufferSizes == {1, 2}

\* A record: a dict, or a DataFrame of one row (index is the label of the
\* row), as the list of its columns and their values; or something else.
Record(label, cells) == [valid |-> TRUE, index |-> label, cells |-> cells]
NotRecord == [valid |-> FALSE, index |-> <<>>, cells |-> <<>>]
Cell(name, value) == [name |-> name, value |-> value]

\* The dicts: an empty one, and dicts with the keys a, a and b, b; a value
\* holds the separator.
DictRecords ==
    { Record(<<>>, <<>>),
      Record(<<>>, <<Cell(<<"a">>, <<"1">>)>>),
      Record(<<>>, <<Cell(<<"a">>, <<"1">>),
                     Cell(<<"b">>, <<"2", SEMICOLON, "3">>)>>),
      Record(<<>>, <<Cell(<<"b">>, <<"2">>)>>),
      NotRecord }

\* The DataFrames: one row, with the column a or the columns a and b.
FrameRecords ==
    { Record(<<"7">>, <<Cell(<<"a">>, <<"y">>)>>),
      Record(<<"8">>, <<Cell(<<"a">>, <<"y">>), Cell(<<"b">>, <<"z">>)>>),
      NotRecord }

\* The csv file the writer is built on: none, one with the column a, one
\* whose first column has no name.
NoFile == [exists |-> FALSE, text |-> <<>>]
WriterFiles ==
    { NoFile,
      [exists |-> TRUE, text |-> <<"a", NL, "1", NL>>],
      [exists |-> TRUE, text |-> <<SEMICOLON, "a", NL,
                                   "0", SEMICOLON, "x", NL>>] }

\* AbstractCsvWriter._get_current_csv_header.
GetCurrentCsvHeader(exists, text) ==
    IF exists /\ text # <<>>
    THEN Split(StripNL(Head(Lines(text))), WriterSep)
    ELSE <<>>

\* DataframeCsvWriter._get_current_csv_header: the first column is left out
\* when it has no name. (The attribute it sets then, write_index, is not
\* the one _to_csv and _update_csv_header read, _write_index.)
GetCurrentFrameHeader(exists, text) ==
    LET w_columns == GetCurrentCsvHeader(exists, text)
    IN  IF w_columns # <<>> /\ w_columns[1] = <<>> THEN Tail(w_columns) ELSE w_columns

\* list(dict_x.keys()), list(record.columns).
Keys(record) == [k \in 1..Len(record.cells) |-> record.cells[k].name]

\* row.get(column, default).
Get(record, column, default) ==
    IF \E k \in 1..Len(record.cells) : record.cells[k].name = column
    THEN record.cells[CHOOSE k \in 1..Len(record.cells) :
                          record.cells[k].name = column].value
    ELSE default

\* set(columns).
ColumnSet(columns) == {columns[k] : k \in 1..Len(columns)}

\* [name for name in columns if name not in header].
NewColumns(columns, w_columns) ==
    SelectSeq(columns, LAMBDA name : name \notin ColumnSet(w_columns))

\* The columns of the records, each once, in the order they first appear.
RECURSIVE FirstSeenColumns(_)
FirstSeenColumns(records) ==
    IF records = <<>> THEN <<>>
    ELSE LET before == FirstSeenColumns(SubSeq(records, 1, Len(records) - 1))
         IN  before \o NewColumns(Keys(records[Len(records)]), before)

\* DictCsvWriter._get_buffer_columns: the keys of a single record, in their
\* order; with more records, list(set(...)), whose order is any.
\* DataframeCsvWriter._get_buffer_columns: the columns of the concatenated
\* records.
BufferColumns(class, buffer) ==
    IF class = "dict" /\ Len(buffer) > 1
    THEN ListDir(UNION {ColumnSet(Keys(buffer[k])) : k \in 1..Len(buffer)})
    ELSE {FirstSeenColumns(buffer)}

\* clean_row, for the separator ';': the separator becomes '.,' and the
\* newlines are removed.
RECURSIVE CleanRow(_)
CleanRow(string) ==
    IF string = <<>> THEN <<>>
    ELSE (IF Head(string) = WriterSep THEN <<".", COMMA>>
          ELSE IF Head(string) = NL THEN <<>>
          ELSE <<Head(string)>>) \o CleanRow(Tail(string))

\* DictCsvWriter._to_csv: what is appended to the csv file.
RECURSIVE DictRows(_, _)
DictRows(buffer, w_columns) ==
    IF buffer = <<>> THEN <<>>
    ELSE Join(WriterSep, [k \in 1..Len(w_columns) |->
                             CleanRow(Get(Head(buffer), w_columns[k], <<>>))])
             \o <<NL>> \o DictRows(Tail(buffer), w_columns)

DictToCsv(buffer, w_columns, first_time) ==
    (IF first_time THEN Join(WriterSep, w_columns) \o <<NL>> ELSE <<>>)
        \o DictRows(buffer, w_columns)

\* DataframeCsvWriter._to_csv: what to_csv appends to the csv file, for the
\* buffer set to the columns of the header.
RECURSIVE FrameRows(_, _, _)
FrameRows(buffer, w_columns, with_index) ==
    IF buffer = <<>> THEN <<>>
    ELSE CsvLine((IF with_index THEN <<Head(buffer).index>> ELSE <<>>)
                     \o [k \in 1..Len(w_columns) |->
                             Get(Head(buffer), w_columns[k], <<>>)],
                 WriterSep)
             \o FrameRows(Tail(buffer), w_columns, with_index)

FrameToCsv(buffer, w_columns, first_time, with_index) ==
    (IF first_time
     THEN CsvLine((IF with_index THEN << <<>> >> ELSE <<>>) \o w_columns, WriterSep)
     ELSE <<>>)
        \o FrameRows(buffer, w_columns, with_index)

\* What _write_buffer_to_disk changes.
WriterState ==
    [header |-> w_header, has_changed |-> w_has_changed, exists |-> w_exists,
     file |-> w_file, stored |-> w_stored, flushed |-> w_flushed,
     failed |-> w_failed]

\* _write_buffer_to_disk: _write_buffer, whose _to_csv fails or not; on a
\* failure the buffer is pickled. columns is what _get_buffer_columns gave.
WriteBufferToDisk(w, buffer, columns, fails) ==
    LET first_time == Len(w.header) = 0
        new_columns == NewColumns(columns, w.header)
        w_columns == w.header \o new_columns
        has_changed == w.has_changed \/ (Len(new_columns) > 0 /\ ~first_time)
    IN  IF fails
        THEN [w EXCEPT !.header = w_columns, !.has_changed = has_changed,
                       !.failed = TRUE]
        ELSE [w EXCEPT !.header = w_columns, !.has_changed = has_changed,
                       !.exists = TRUE,
                       !.file = @ \o (IF w_class = "dict"
                                      THEN DictToCsv(buffer, w_columns, first_time)
                                      ELSE FrameToCsv(buffer, w_columns, first_time,
                                                      w_write_index)),
                       !.stored = @ + Len(buffer),
                       !.flushed = @ \o buffer]

\* _update_csv_header, on an existing csv file: the first line is replaced
\* by the header (DataframeCsvWriter first adds the column without a name
\* to its header when the index is written).
UpdateCsvHeader(w) ==
    LET w_columns == IF w_class = "dataframe" /\ w_write_index
                  THEN << <<>> >> \o w.header ELSE w.header
        lines == Lines(w.file)
    IN  [w EXCEPT !.header = w_columns,
                  !.file = Join(WriterSep, w_columns) \o <<NL>>
                               \o (IF lines = <<>> THEN <<>>
                                   ELSE Concat(Tail(lines))),
                  !.has_changed = FALSE]

\* The writer takes the state w.
SetWriter(w) ==
    /\ w_header' = w.header
    /\ w_has_changed' = w.has_changed
    /\ w_exists' = w.exists
    /\ w_file' = w.file
    /\ w_stored' = w.stored
    /\ w_flushed' = w.flushed
    /\ w_failed' = w.failed

\* handle_record.
HandleRecord ==
    /\ w_pc \in {"built", "handled", "finished", "finish_raised"}
    /\ w_handled < MaxRecords
    /\ \E record \in (IF w_class = "dict" THEN DictRecords ELSE FrameRecords) :
         LET buffer == IF record.valid THEN Append(w_buffer, record)
                       ELSE w_buffer
         IN  /\ w_seen' = IF record.valid
                           THEN w_seen \o NewColumns(Keys(record), w_seen)
                           ELSE w_seen
             /\ IF Len(buffer) >= w_buffer_size
                THEN /\ \E columns \in BufferColumns(w_class, buffer),
                           fails \in BOOLEAN :
                          SetWriter(WriteBufferToDisk(WriterState, buffer,
                                                      columns, fails))
                     /\ w_buffer' = <<>>
                ELSE /\ SetWriter(WriterState)
                     /\ w_buffer' = buffer
    /\ w_handled' = w_handled + 1
    /\ w_pc' = "handled"
    /\ UNCHANGED <<w_class, w_buffer_size, w_write_index, w_first>>
    /\ UNCHANGED <<sorterVars, mergerVars, stageVars, concVars,
                   transformerVars, callVars>>

\* finish_handling_procedure. The test of the buffer, if self.buffer, raises
\* ValueError when the buffer is a DataFrame; _update_csv_header raises
\* FileNotFoundError when there is no csv file.
FinishHandlingProcedure ==
    /\ w_pc \in {"built", "handled", "finished", "finish_raised"}
    /\ IF w_class = "dataframe"
       THEN /\ w_pc' = "finish_raised"
            /\ SetWriter(WriterState)
            /\ UNCHANGED w_buffer
       ELSE \E columns \in BufferColumns(w_class, w_buffer), fails \in BOOLEAN :
              LET w == IF w_buffer # <<>>
                       THEN WriteBufferToDisk(WriterState, w_buffer, columns,
                                              fails)
                       ELSE WriterState
              IN  /\ w_buffer' = <<>>
                  /\ IF ~w.has_changed
                     THEN SetWriter(w) /\ w_pc' = "finished"
                     ELSE IF ~w.exists
                     THEN SetWriter(w) /\ w_pc' = "finish_raised"
                     ELSE SetWriter(UpdateCsvHeader(w)) /\ w_pc' = "finished"
    /\ UNCHANGED <<w_class, w_buffer_size, w_write_index, w_first, w_handled,
                   w_seen>>
    /\ UNCHANGED <<sorterVars, mergerVars, stageVars, concVars,
                   transformerVars, callVars>>

\* A writer just built, on a csv file or none.
WriterInit ==
    /\ SorterIdle
    /\ MergerIdle
    /\ StageIdle
    /\ ConcIdle
    /\ TransformerIdle
    /\ NoCallBefore
    /\ w_class \in {"dict", "dataframe"}
    /\ w_buffer_size \in WriterBufferSizes
    /\ w_write_index \in (IF w_class = "dataframe" THEN BOOLEAN ELSE {FALSE})
    /\ \E file \in WriterFiles :
         /\ w_exists = file.exists
         /\ w_file = file.text
         /\ w_header = IF w_class = "dataframe"
                       THEN GetCurrentFrameHeader(file.exists, file.text)
                       ELSE GetCurrentCsvHeader(file.exists, file.text)
    /\ w_first = w_file
    /\ w_buffer = <<>>
    /\ w_has_changed = FALSE
    /\ w_stored = 0
    /\ w_pc = "built"
    /\ w_handled = 0
    /\ w_seen = w_header
    /\ w_flushed = <<>>
    /\ w_failed = FALSE

WriterNext ==
    \/ HandleRecord
    \/ FinishHandlingProcedure

WriterSpec == WriterInit /\ [][WriterNext]_vars

----------------------------------------------------------------------------
(* CsvMerger._parse_csv_row, called on its own.                            *)

MaxLineLen == 4

\* The rows: every text of at most MaxLineLen characters among a letter, a
\* comma, a double quote and a newline.
ParseChars == {"a", COMMA, QUOTE, NL}
ParseRows == UNION {[1..n -> ParseChars] : n \in 0..MaxLineLen}

\* The separators: any of the characters.
ParseSeps == ParseChars

\* The call of _parse_csv_row, from its first line to its return.
ParseCsvRowCall ==
    /\ parse_pc = "called"
    /\ parse_fields' = ParseCsvRow(parse_row, parse_sep)
    /\ parse_pc' = "returned"
    /\ UNCHANGED <<parse_row, parse_sep, prev_err>>
    /\ UNCHANGED <<sorterVars, mergerVars, stageVars, concVars,
                   transformerVars, writerVars>>

ParseInit ==
    /\ SorterIdle
    /\ MergerIdle
    /\ StageIdle
    /\ ConcIdle
    /\ TransformerIdle
    /\ WriterIdle
    /\ prev_err = NoError
    /\ parse_row \in ParseRows
    /\ parse_sep \in ParseSeps
    /\ parse_fields = <<>>
    /\ parse_pc = "called"

ParseNext == ParseCsvRowCall

ParseSpec == ParseInit /\ [][ParseNext]_vars

----------------------------------------------------------------------------
(* CsvSorter: properties.                                                  *)

\* A line without its newline.
RowText(line) ==
    IF line # <<>> /\ line[Len(line)] = NL
    THEN SubSeq(line, 1, Len(line) - 1) ELSE line

RowTexts(lines) == [i \in 1..Len(lines) |-> RowText(lines[i])]

\* The lines of a csv file but its header.
DataLines(content, with_header) ==
    LET lines == Lines(content)
    IN  IF with_header /\ lines # <<>> THEN Tail(lines) ELSE lines

InputRows == RowTexts(DataLines(input_file, has_header))
OutputRows == RowTexts(DataLines(output_file, header.present))

Count(row, rows) == Cardinality({i \in 1..Len(rows) : rows[i] = row})

\* The same rows as a multiset.
SameRows(rows1, rows2) ==
    /\ Len(rows1) = Len(rows2)
    /\ \A i \in 1..Len(rows1) : Count(rows1[i], rows1) = Count(rows1[i], rows2)

\* The key of a row: its sort column as the quote-aware tokenizer cuts it.
TokenizerKey(row, column) == AlphanumKey(ParseCsvRow(row, SEP)[column + 1])

OrderedBy(rows, column) ==
    \A i \in 1..(Len(rows) - 1) :
        KeyLeq(TokenizerKey(rows[i], column), TokenizerKey(rows[i + 1], column))

\* C1: when sort_file has returned, the data rows of output_file are the
\* data rows of input_file as a multiset, in the same number (so that, in
\* random mode, no row keeps its index field).
C1_RowsPreserved == pc = "done" => SameRows(InputRows, OutputRows)

\* C2: after sort_file along a column, the keys of any two adjacent rows of
\* output_file are in natural order, the key of a row being its sort column
\* as the quote-aware tokenizer cuts it.
C2_OutputOrdered ==
    (pc = "done" /\ sorting_axis.kind # "random")
        => OrderedBy(OutputRows, sorting_key.column)

\* The data lines of input_file are in the order of the sorting key.
InputSorted ==
    LET lines == DataLines(input_file, has_header)
    IN  \A i \in 1..(Len(lines) - 1) :
            KeyLeq(SortingKey(sorting_key, lines[i]),
                   SortingKey(sorting_key, lines[i + 1]))

\* C3: sorting a file already sorted by the same key gives back the same
\* sequence of data rows, byte for byte (stated for the files whose last
\* line ends with a newline: the others are the matter of C1).
C3_SortedInputUnchanged ==
    (/\ pc = "done" /\ sorting_axis.kind # "random" /\ InputSorted
     /\ input_file # <<>> /\ input_file[Len(input_file)] = NL)
        => DataLines(output_file, header.present)
               = DataLines(input_file, has_header)

\* C4: with max_open >= 1, or the max_open LargeCsvTransformer.sort derives
\* from a chunksize > 0, _merging_steps reaches a step with a single file and
\* returns: it does not raise, and every step leaves fewer files than it
\* found (a step that leaves as many is repeated forever).
C4_MergingTerminates ==
    (max_open >= 1 \/ (chunksize > 0 /\ max_open = TransformerMaxOpen(chunksize)))
        => /\ ~(pc = "raised" /\ err.where = "_merging_steps")
           /\ (pc = "list" /\ step_n > 0)
                  => Cardinality(DOMAIN dirs[step_n]) < gen_sizes[step_n]

RECURSIVE Pow(_, _)
Pow(m, k) == IF k = 0 THEN 1 ELSE m * Pow(m, k - 1)

CeilDiv(a, b) == (a + b - 1) \div b

\* ceil(log_m(r)): the least k with m^k >= r.
CeilLog(m, r) ==
    CHOOSE k \in 0..r : Pow(m, k) >= r /\ \A j \in 0..(k - 1) : Pow(m, j) < r

\* _merging_steps has returned.
Returned ==
    \/ pc \in {"cleanup", "done"}
    \/ pc = "raised" /\ err.where = "_cleanup_step"

\* C5: with max_open = M >= 1 and R files at step 0, step k holds
\* ceil(R / M^k) files, and the step returned is ceil(log_M(R)).
C5_RunCounts ==
    max_open >= 1 =>
        /\ \A k \in 1..Len(gen_sizes) :
               gen_sizes[k] = CeilDiv(gen_sizes[1], Pow(max_open, k - 1))
        /\ (pc = "list" /\ step_n > 0)
               => Cardinality(DOMAIN dirs[step_n])
                      = CeilDiv(gen_sizes[1], Pow(max_open, step_n))
        /\ Returned => step_n = CeilLog(max_open, gen_sizes[1])

\* Two merging steps were needed: 3 files, then 2, then 1.
C5_Witness ==
    pc = "cleanup" /\ max_open = 2 /\ step_n = 2 /\ gen_sizes = <<3, 2, 1>>

\* C6: at most max_open files of the current step are open for reading, and
\* none is when a group starts.
C6_OpenAtMostMaxOpen ==
    /\ Cardinality(open_runs) <= max_open
    /\ open_runs \subseteq {to_merge[k] : k \in 1..Len(to_merge)}
    /\ pc = "group" => open_runs = {}

\* A whole group of max_open files is open while other files of the step
\* are not.
C6_Witness ==
    /\ pc = "merging"
    /\ max_open = 2
    /\ Cardinality(open_runs) = max_open
    /\ Len(temp_files) > max_open

RECURSIVE TotalLen(_)
TotalLen(dir) ==
    IF DOMAIN dir = {} THEN 0
    ELSE LET c == CHOOSE c \in DOMAIN dir : TRUE
         IN  Len(dir[c]) + TotalLen([d \in DOMAIN dir \ {c} |-> dir[d]])

\* C7: in _merging_steps, a step's files are deleted only once they are all
\* written to files of the next step, all closed; and a file is opened for
\* reading only in a step no file of which is being written, the step
\* before it being deleted.
C7_StepsInOrder ==
    [][/\ (pc # "cleanup" /\ step_n \in DOMAIN dirs /\ step_n \notin DOMAIN dirs')
           => /\ (step_n + 1) \in DOMAIN dirs
              /\ writing = {}
              /\ open_runs = {}
              /\ TotalLen(dirs[step_n + 1]) = TotalLen(dirs[step_n])
       /\ (open_runs' \ open_runs # {})
           => /\ open_runs' \subseteq DOMAIN dirs[step_n]
              /\ \A w \in writing : w[1] # step_n
              /\ step_n > 0 => (step_n - 1) \notin DOMAIN dirs
      ]_vars

\* A file of step 1 is open for reading.
C7_Witness == step_n = 1 /\ open_runs # {}

\* The parameters of the call are invalid.
InvalidCall ==
    \/ ~input_exists
    \/ chunksize <= 0
    \/ sorting_axis.kind = "name" /\ ~has_header

Disk == <<out_dir_exists, tempdir_exists, dirs, output_exists, output_file>>

\* C8: a sort with invalid parameters is rejected before any disk mutation:
\* no step of the call changes anything on disk, and the call goes no
\* further than _initial_step's first statements.
C8_InvalidCallRejected ==
    [][InvalidCall => (Disk' = Disk /\ pc' \in {"initial", "raised"})]_vars

\* The column names of the header of input_file.
HeaderNames == ParseCsvRow(Lines(input_file)[1], SEP)

\* C9: a sorting_axis that names a column of the header, first to last, is
\* resolved to the index of that column, and the output is ordered by it.
C9_NameResolved ==
    (/\ input_exists /\ has_header /\ chunksize >= 1
     /\ sorting_axis.kind = "name"
     /\ ListIndex(HeaderNames, sorting_axis.name) # -1
     /\ pc \notin {"idle", "initial"})
        => /\ ~(pc = "raised" /\ err.where = "_initial_step")
           /\ sorting_key = [random |-> FALSE,
                             column |-> ListIndex(HeaderNames, sorting_axis.name)]
           /\ pc = "done"
                  => OrderedBy(OutputRows, ListIndex(HeaderNames, sorting_axis.name))

----------------------------------------------------------------------------
(* CsvMerger: properties.                                                  *)

Range(seq) == {seq[k] : k \in 1..Len(seq)}

\* The columns of the header of merged_file that the header of main_file, as
\* it was before the call, lacks.
AbsentColumns ==
    Range(ReadHeader(merged_file, merged_sep))
        \ Range(ReadHeader(main_before, main_sep))

\* C10: when the header of merged_file has a column that the header of
\* main_file lacks, merge_files raises a ValueError that names the missing
\* columns, and the content of main_file is what it was before the call.
C10_SchemaRejected ==
    (merge_pc \notin {"off", "idle"} /\ AbsentColumns # {})
        => /\ merge_pc = "raised"
           /\ merge_err.type = "ValueError"
           /\ Range(merge_err.missing) = AbsentColumns
           /\ main_file = main_before

\* The call was rejected for the column c of a merged file that has rows to
\* append, a column of which main_file has.
C10_Witness ==
    /\ merge_pc = "raised"
    /\ merge_err.missing = <<ColC>>
    /\ merged_header = <<ColA, ColC>>
    /\ infile # <<>>
    /\ main_file = main_before

\* The headers of the two files as they were before the call, and the data
\* lines of merged_file.
H1 == ReadHeader(main_before, main_sep)
H2 == ReadHeader(merged_file, merged_sep)
MergedDataLines == IF merged_file = <<>> THEN <<>> ELSE Tail(Lines(merged_file))

\* C11: when the two headers are identical, merge_files copies (it neither
\* raises nor realigns), and leaves main_file equal to its previous content
\* followed by the data lines of merged_file, byte for byte, the header line
\* of merged_file left out.
C11_FastPathCopies ==
    (merge_pc \notin {"off", "idle"} /\ H1 = H2)
        => /\ merge_pc \in {"copy", "done"}
           /\ merge_pc = "done"
                  => main_file = main_before \o Concat(MergedDataLines)

\* Two data lines were copied after a main file that held a row.
C11_Witness ==
    /\ merge_pc = "done"
    /\ H1 = H2
    /\ Len(MergedDataLines) = 2
    /\ Len(Lines(main_before)) = 2
    /\ main_file # main_before

\* The row the claim expects for a data line of merged_file: under each
\* column of H1 the line's value of the same-named column of H2, or the
\* empty string when H2 has no such column.
ExpectedRow(line) ==
    LET fields == ParseCsvRow(line, merged_sep)
    IN  [k \in 1..Len(H1) |->
            IF H1[k] \in Range(H2)
            THEN fields[CHOOSE j \in 1..Len(H2) : H2[j] = H1[k]]
            ELSE <<>>]

ExpectedLines ==
    [i \in 1..Len(MergedDataLines) |->
        Join(main_sep, ExpectedRow(MergedDataLines[i])) \o <<NL>>]

\* Every data line of merged_file has a value for every column of H2.
RowsHaveAllColumns ==
    \A i \in 1..Len(MergedDataLines) :
        Len(ParseCsvRow(MergedDataLines[i], merged_sep)) >= Len(H2)

C16_ArityMismatchRaises ==
    (merge_pc = "done" /\ H1 # H2)
        => \A i \in 1..Len(MergedDataLines) :
               Len(ParseCsvRow(MergedDataLines[i], merged_sep)) = Len(H2)

----------------------------------------------------------------------------
(* CsvMerger: properties of stage and merge_staged_files.                  *)

\* The header of the k-th staged file.
StagedHeader(k) == ReadHeader(files[staged_files[k].path], staged_files[k].sep)

\* Where a column name first appears: in which staged file, then at which
\* place of its header, as one number.
FirstSeen(name) ==
    LET k == CHOOSE k \in 1..Len(staged_files) :
                 /\ name \in Range(StagedHeader(k))
                 /\ \A j \in 1..(k - 1) : name \notin Range(StagedHeader(j))
    IN  k * 100 + ListIndex(StagedHeader(k), name)

\* C13: the list get_staged_files_header returns has no duplicate, holds
\* every column name of every staged header (and no other), in the order of
\* their first appearance across the staged files.
C13_UnionHeader ==
    [][(stage_pc = "idle" /\ stage_pc' = "merging")
        => /\ \A i, j \in 1..Len(staged_header') :
                  i # j => staged_header'[i] # staged_header'[j]
           /\ Range(staged_header')
                  = UNION {Range(StagedHeader(k)) : k \in 1..Len(staged_files)}
           /\ \A i, j \in 1..Len(staged_header') :
                  i < j => FirstSeen(staged_header'[i]) <= FirstSeen(staged_header'[j])
      ]_vars

\* C14: when merge_staged_files has ended, be it by a return or by an
\* exception, no file is staged.
C14_UnstagedAtEnd == stage_pc \in {"done", "raised"} => staged_files = <<>>

\* C15: a call of stage that raises FileNotFoundError leaves staged_files
\* as it was before the call.
C15_FailedStageKeepsList ==
    [][(/\ stage_pc = "idle" /\ stage_pc' = "idle"
        /\ stage_err'.type = "FileNotFoundError")
        => staged_files' = staged_files]_vars

----------------------------------------------------------------------------
(* CsvSorter: the end of a sort.                                           *)

\* The step by which sort_file returns normally.
SortReturns == pc = "cleanup" /\ pc' = "done"

\* The header as sort_file writes it back.
WrittenHeader == IF has_header THEN header.line ELSE <<>>

\* outline is runline without its leading index field and separator.
IsWithoutIndex(runline, outline) ==
    \E n \in 1..Len(runline) :
        /\ n > 1
        /\ \A j \in 1..(n - 1) : IsDigit(runline[j])
        /\ runline[n] = SEP
        /\ outline = SubSeq(runline, n + 1, Len(runline))

\* C17, as stated: when sort_file returns, the working directory and every
\* temporary file are gone and the output file is the header followed by the
\* content of the single final run.
C17_OutputIsFinalRun ==
    [][SortReturns =>
          /\ ~tempdir_exists'
          /\ dirs' = <<>>
          /\ output_exists'
          /\ output_file' = WrittenHeader \o dirs[step_n][0]]_vars

\* C17, amended: when sort_file returns, the working directory and every
\* temporary file are gone and the output file is the header followed by the
\* rows of the single final run, each of them without its leading index field
\* when the sort is random.
C17_OutputIsFinalRunLessIndex ==
    [][SortReturns =>
          /\ ~tempdir_exists'
          /\ dirs' = <<>>
          /\ output_exists'
          /\ DOMAIN dirs[step_n] = {0}
          /\ LET run == Lines(dirs[step_n][0])
                 head == Len(WrittenHeader)
                 out == Lines(SubSeq(output_file', head + 1, Len(output_file')))
             IN  /\ SubSeq(output_file', 1, head) = WrittenHeader
                 /\ Len(out) = Len(run)
                 /\ \A k \in 1..Len(run) :
                        IF sorting_axis.kind = "random"
                        THEN IsWithoutIndex(run[k], out[k])
                        ELSE out[k] = run[k]]_vars

\* A random sort of two rows or more has returned.
C17_Witness ==
    /\ pc = "done"
    /\ sorting_axis.kind = "random"
    /\ step_n > 0
    /\ Len(Lines(output_file)) > 2
    /\ ~tempdir_exists

----------------------------------------------------------------------------
(* CsvSorter: sort_file operations in flight at the same time.             *)

\* The operation is between its call and its return or exception.
InFlight(o) == op_pc[o] \in {"initial", "write", "list", "merge", "rmtree",
                             "cleanup"}

\* No operation has listed, read, overwritten or deleted a file written by
\* another one.
OwnFilesOnly == \A o \in Ops : touched[o] \subseteq {o}

\* C18: two sort_file operations in flight at the same time, on two sorters
\* or on one, have distinct working directories, and neither has listed,
\* read, overwritten or deleted a temporary file written by the other.
C18_DistinctWorkingDirs ==
    \A a, b \in Ops :
        (a # b /\ InFlight(a) /\ InFlight(b))
            => /\ WorkingDir(a) # WorkingDir(b)
               /\ touched[a] \subseteq {a}
               /\ touched[b] \subseteq {b}

\* An operation never raises FileExistsError.
NoFileExistsError == \A o \in Ops : op_err[o].type # "FileExistsError"

----------------------------------------------------------------------------
(* LargeCsvTransformer: the properties of sort.                            *)

\* The place of sort's sorting_column in the rows.
SortingColumnIndex ==
    IF sorting_column.kind = "name"
    THEN ListIndex(ParseCsvRow(RowText(Lines(input_file)[1]), SEP),
                   sorting_column.name)
    ELSE sorting_column.index

\* C19: when sort has returned from a call with a sorting_column that is
\* not None (the name or the cardinal of a column of the file), the data rows
\* of the output file are in the natural order of that column.
C19_SortedAlongColumn ==
    (/\ tr_pc = "done"
     /\ sorting_column.kind # "random"
     /\ sorting_column.kind = "name" => has_header)
        => OrderedBy(OutputRows, SortingColumnIndex)

----------------------------------------------------------------------------
(* LargeCsvTransformer: the properties of map and apply.                   *)

\* The function returned a DataFrame with a column or more for every chunk.
EveryChunkHasColumn ==
    \A i \in 1..Len(results) : results[i].frame /\ results[i].columns # <<>>

\* The results have the same columns.
SameColumns ==
    \A i \in 1..Len(results) : results[i].columns = results[1].columns

\* The rows of the first n results as csv lines, in the order of the
\* chunks.
RECURSIVE ResultRows(_)
ResultRows(n) ==
    IF n = 0 THEN <<>>
    ELSE ResultRows(n - 1)
             \o CsvRows(results[n].rows, RowsBefore(results, n - 1), SEMICOLON)

\* C20: a call of map or apply with an output file, for which the function
\* returns a DataFrame with a column or more for every chunk, ends without
\* an exception, with an output file of one header line and one line per row
\* of the results; when the results have the same columns, these lines are
\* the header and the rows of the results, in the order of the chunks.
C20_StoredInChunkOrder ==
    (/\ tr_pc \in {"done", "raised"}
     /\ EndsWith(store_file, DotCsv)
     /\ EveryChunkHasColumn)
        => /\ tr_pc = "done"
           /\ stage_err = NoError
           /\ Len(Lines(main_file)) = 1 + RowsBefore(results, Len(results))
           /\ SameColumns =>
                  main_file = CsvLine(<< <<>> >> \o results[1].columns, SEMICOLON)
                                  \o ResultRows(Len(results))

\* The same for the output files in an existing folder alone.
StoredInFolderCompletes ==
    (/\ tr_pc \in {"done", "raised"}
     /\ EndsWith(store_file, DotCsv)
     /\ DirName(store_file) \in Folders
     /\ EveryChunkHasColumn)
        => tr_pc = "done"

\* The call never ends normally with an output file for results that all
\* have a column.
StoreNeverCompletes ==
    (EveryChunkHasColumn /\ EndsWith(store_file, DotCsv)) => tr_pc # "done"

----------------------------------------------------------------------------
(* The csv writers.                                                        *)

\* The fields of the k-th line of the csv file of the writer.
WriterFields(k) == Split(StripNL(Lines(w_file)[k]), WriterSep)

\* The header the csv file should have: every column seen so far, once, in
\* the order they were first seen, after one column without a name when the
\* index is written.
SeenHeader ==
    (IF w_class = "dataframe" /\ w_write_index THEN << <<>> >> ELSE <<>>)
        \o w_seen

\* C21: whenever finish_handling_procedure has returned, the first line of
\* the csv file is the header that lists every column seen so far exactly
\* once, in first-seen order (after exactly one unnamed index column when the
\* index is written), whatever the records handled, the flushes that failed
\* and the finalizations made before.
C21_HeaderAfterFinish ==
    w_pc = "finished" /\ w_seen # <<>>
        => /\ w_exists
           /\ w_file # <<>>
           /\ WriterFields(1) = SeenHeader

\* The same, for the writers none of whose flushes failed.
HeaderAfterFinishUnfailed ==
    w_pc = "finished" /\ w_seen # <<>> /\ ~w_failed
        => /\ w_exists
           /\ w_file # <<>>
           /\ WriterFields(1) = SeenHeader

\* finish_handling_procedure of a DataframeCsvWriter never returns.
FrameFinishNeverReturns == w_class = "dataframe" => w_pc # "finished"

\* The csv file the writer was built on has a header whose first column has
\* no name.
BuiltOnUnnamedFirstColumn ==
    /\ w_first # <<>>
    /\ Head(Split(StripNL(Head(Lines(w_first))), WriterSep)) = <<>>

\* C22: a DataframeCsvWriter built with write_index False on a csv file whose
\* first header column has no name writes the index of every record it
\* flushes as the first field of the row it appends.
C22_IndexWrittenOnUnnamedColumn ==
    w_class = "dataframe" /\ ~w_write_index /\ BuiltOnUnnamedFirstColumn
        => /\ Len(Lines(w_file)) = Len(Lines(w_first)) + Len(w_flushed)
           /\ \A k \in 1..Len(w_flushed) :
                 Head(WriterFields(Len(Lines(w_first)) + k))
                     = w_flushed[k].index

\* C29: after finish_handling_procedure of a DictCsvWriter, every data row of
\* the csv file has exactly as many fields as its header line, whatever the
\* records handled, the rows flushed before a record brought new columns
\* included.
C29_RowsAsWideAsHeader ==
    w_class = "dict" /\ w_pc = "finished" /\ w_file # <<>>
        => \A k \in 2..Len(Lines(w_file)) :
              Len(WriterFields(k)) = Len(WriterFields(1))

\* The same, for the writers none of whose flushes failed, built on no file.
RowsAsWideAsHeaderUnfailed ==
    w_class = "dict" /\ w_pc = "finished" /\ w_file # <<>> /\ ~w_failed
            /\ w_first = <<>>
        => \A k \in 2..Len(Lines(w_file)) :
              Len(WriterFields(k)) = Len(WriterFields(1))

----------------------------------------------------------------------------
(* CsvMerger: the files merge_staged_files removes and the rows it writes. *)

\* The number of data lines of a csv text.
DataRowCount(text) == IF text = <<>> THEN 0 ELSE Len(Lines(text)) - 1

\* The staged files the running call of merge_staged_files has deleted.
DeletedSources ==
    {q \in DOMAIN files_before :
        IF q = out_path THEN ~out_exists ELSE q \notin DOMAIN files}

\* The number of data lines the files of a set of paths held when
\* merge_staged_files was called.
RECURSIVE RowsHeldBy(_)
RowsHeldBy(paths) ==
    IF paths = {} THEN 0
    ELSE LET q == CHOOSE q \in paths : TRUE
         IN  DataRowCount(files_before[q]) + RowsHeldBy(paths \ {q})

\* C26: at every point of a call of merge_staged_files with remove_merged
\* True, the call failing midway or not, the output file exists and holds the
\* data rows of every staged file the call has deleted: a staged file is
\* deleted only after all its data rows were appended to the output file.
C26_DeletedAfterAppended ==
    stage_pc \in {"merging", "done", "raised"} /\ remove_merged
            /\ DeletedSources # {}
        => /\ out_exists
           /\ DataRowCount(main_file) >= RowsHeldBy(DeletedSources)

\* The same, for the calls whose output file is no csv file on disk before.
DeletedAfterAppendedToNewFile ==
    stage_pc \in {"merging", "done", "raised"} /\ remove_merged
            /\ DeletedSources # {} /\ out_path \notin DOMAIN files_before
        => /\ out_exists
           /\ DataRowCount(main_file) >= RowsHeldBy(DeletedSources)

\* A csv text is well formed under sep: every data row has as many fields as
\* the header.
WellFormed(text, sep) ==
    \A k \in 2..Len(Lines(text)) :
        Len(ParseCsvRow(Lines(text)[k], sep))
            = Len(ParseCsvRow(Lines(text)[1], sep))

\* Every staged file was well formed under the separator it was staged with
\* when merge_staged_files was called.
StagedWellFormed ==
    \A k \in 1..Len(staged_files) :
        /\ staged_files[k].path \in DOMAIN files_before
        /\ WellFormed(files_before[staged_files[k].path], staged_files[k].sep)

\* The loop of merge_staged_files has merged every staged file: the output
\* file is the one the call produces.
AllMerged ==
    /\ stage_pc = "merging"
    /\ merge_pc = "off"
    /\ merge_k > Len(staged_files)
    /\ out_exists

\* C28: in the file merge_staged_files produces from staged files that are
\* well formed under the separators they were staged with, every data row,
\* parsed with the output separator, has exactly as many fields as the union
\* header written on the first line, be the staged separators the output
\* separator or not, the staged headers identical or not.
C28_RowsAsWideAsUnionHeader ==
    AllMerged /\ StagedWellFormed => WellFormed(main_file, out_sep)

\* The same, for the calls whose output file is no csv file on disk before.
NewFileRowsAsWideAsUnionHeader ==
    AllMerged /\ StagedWellFormed /\ out_path \notin DOMAIN files_before
        => WellFormed(main_file, out_sep)

\* The same again, for the staged files whose separator is the output
\* separator.
SameSepRowsAsWideAsUnionHeader ==
    /\ AllMerged /\ StagedWellFormed /\ out_path \notin DOMAIN files_before
    /\ \A k \in 1..Len(staged_files) : staged_files[k].sep = out_sep
    => WellFormed(main_file, out_sep)

----------------------------------------------------------------------------
(* CsvMerger._parse_csv_row.                                               *)

\* The number of double quotes before the place i of s.
QuotesBefore(s, i) == Cardinality({j \in 1..(i - 1) : s[j] = QUOTE})

\* The places of s where sep stands after an even number of double quotes.
CutPlaces(s, sep) ==
    {i \in 1..Len(s) : s[i] = sep /\ QuotesBefore(s, i) % 2 = 0}

\* The pieces of s cut at the places: what stands between one place (or the
\* start of s) and the next (or the end of s), from left to right.
Pieces(s, places) ==
    LET starts == {1} \cup {i + 1 : i \in places}
        NextPlace(from) ==
            IF \E i \in places : i >= from
            THEN CHOOSE i \in places :
                     i >= from /\ \A j \in places : j >= from => i <= j
            ELSE Len(s) + 1
        Nth(k) == CHOOSE a \in starts :
                      Cardinality({b \in starts : b < a}) = k - 1
    IN  [k \in 1..Cardinality(starts) |->
            SubSeq(s, Nth(k), NextPlace(Nth(k)) - 1)]

\* C23: for every line and every separator of one character,
\* _parse_csv_row returns (it never raises) the pieces of the line stripped
\* of its newlines, cut at exactly the separators that stand after an even
\* number of double quotes: the double quotes stay in the fields, and no
\* cut is made after an unbalanced quote.
C23_CutAtUnquotedSeparators ==
    parse_pc = "returned"
        => parse_fields = Pieces(StripNL(parse_row),
                                 CutPlaces(StripNL(parse_row), parse_sep))

\* The same, for the separators other than the double quote.
CutAtUnquotedSeparatorsButQuote ==
    parse_pc = "returned" /\ parse_sep # QUOTE
        => parse_fields = Pieces(StripNL(parse_row),
                                 CutPlaces(StripNL(parse_row), parse_sep))

----------------------------------------------------------------------------
(* CsvSorter: the order of the rows with equal keys.                       *)

\* The lines among lines whose key is the key of line, in their order.
WithKeyOf(lines, line) ==
    SelectSeq(lines, LAMBDA other :
                  SortingKey(sorting_key, other) = SortingKey(sorting_key, line))

\* C24: sort_file is stable from end to end: when it has returned, the data
\* rows with equal keys stand in output_file in the order they have in
\* input_file, whatever the number of initial files, the groups and the
\* number of merging steps (stated for the sorts along a column of the files
\* whose last line ends with a newline: the others are the matter of C1).
C24_StableEndToEnd ==
    (/\ pc = "done" /\ sorting_axis.kind # "random"
     /\ input_file # <<>> /\ input_file[Len(input_file)] = NL)
        => \A i \in 1..Len(DataLines(input_file, has_header)) :
              LET line == DataLines(input_file, has_header)[i]
              IN  WithKeyOf(DataLines(output_file, header.present), line)
                      = WithKeyOf(DataLines(input_file, has_header), line)

\* The same for the sorts that write a single initial file: no merge is made.
StableWithOneRun ==
    (/\ pc = "done" /\ sorting_axis.kind # "random"
     /\ input_file # <<>> /\ input_file[Len(input_file)] = NL
     /\ Len(gen_sizes) = 1)
        => \A i \in 1..Len(DataLines(input_file, has_header)) :
              LET line == DataLines(input_file, has_header)[i]
              IN  WithKeyOf(DataLines(output_file, header.present), line)
                      = WithKeyOf(DataLines(input_file, has_header), line)

----------------------------------------------------------------------------
(* CsvSorter: the initial temporary files.                                 *)

\* The rows of a temporary file, less the index a random sort puts first.
Unindexed(run) ==
    IF sorting_key.random
    THEN [k \in 1..Len(run) |-> SplitOnceLast(run[k], SEP)]
    ELSE run

\* The temporary files of step 0 are ceil(n / chunksize) files of cardinals
\* 0 to ceil(n / chunksize) - 1 for the n data rows of input_file; each is
\* in the order of the sorting key, and the file of cardinal i holds the
\* i-th slice of chunksize rows of input_file, the last one what is left.
InitialRunsAsSlices ==
    LET data == DataLines(input_file, has_header)
        n == Len(data)
        r == CeilDiv(n, chunksize)
    IN  /\ DOMAIN dirs[0] = 0..(r - 1)
        /\ \A i \in 0..(r - 1) :
              LET run == Lines(dirs[0][i])
                  slice == SubSeq(data, i * chunksize + 1,
                                  Min((i + 1) * chunksize, n))
              IN  /\ \A k \in 1..(Len(run) - 1) :
                        KeyLeq(SortingKey(sorting_key, run[k]),
                               SortingKey(sorting_key, run[k + 1]))
                  /\ SameRows(Unindexed(run), slice)
                  /\ Len(run) >= 1
                  /\ Len(run) <= chunksize

\* _initial_step has just returned.
AfterInitialStep == pc = "list" /\ step_n = 0

\* C25: for an input of n data rows and a chunksize c >= 1, _initial_step
\* writes exactly ceil(n / c) temporary files at step 0, of cardinals 0 to
\* ceil(n / c) - 1, each in the order of the sorting key; the file of
\* cardinal i holds the i-th slice of c rows of the input, the last one the
\* 1 to c rows that are left (stated for the files whose last line ends with
\* a newline: the others are the matter of C1).
C25_InitialRuns ==
    (/\ AfterInitialStep /\ chunksize >= 1
     /\ (input_file = <<>> \/ input_file[Len(input_file)] = NL))
        => InitialRunsAsSlices

\* The same for the inputs that hold a data row or more.
InitialRunsOfSomeRows ==
    (/\ AfterInitialStep /\ chunksize >= 1
     /\ input_file # <<>> /\ input_file[Len(input_file)] = NL
     /\ DataLines(input_file, has_header) # <<>>)
        => InitialRunsAsSlices

----------------------------------------------------------------------------
(* CsvSorter: a call of sort_file after one that failed.                   *)

\* The previous call of sort_file on the sorter failed after it had made its
\* working directory.
FailedWithWorkingDir ==
    \/ prev_err.where \in {"_merging_steps", "_cleanup_step"}
    \/ prev_err.where = "_initial_step" /\ prev_err.type = "ValueError"

\* C27: after a call of sort_file that failed once its working directory was
\* made, a later call of sort_file on the same sorter with valid arguments
\* runs to its end: what the failed call left behind does not make it raise
\* (stated for the sorters built with a chunksize of 1 or more and a max_open
\* of 2 or more).
C27_LaterCallCompletes ==
    FailedWithWorkingDir /\ chunksize >= 1 /\ max_open >= 2
        => pc # "raised"

\* The later call of a sorter whose failed call had made no working
\* directory does not raise.
LaterCallWithoutLeftovers ==
    (/\ prev_err # NoError /\ ~FailedWithWorkingDir
     /\ chunksize >= 1 /\ max_open >= 2)
        => pc # "raised"

\* Every later call of a sorter whose failed call had made its working
\* directory raises FileExistsError in _initial_step.
LaterCallNeverCompletes ==
    FailedWithWorkingDir
        => /\ pc \in {"initial", "raised"}
           /\ pc = "raised"
                  => err = [type |-> "FileExistsError", where |-> "_initial_step"]
                         \/ chunksize = 0

====
